---------------------------- MODULE Spec2Model ----------------------------
(***************************************************************************)
(* State-machine model of the sync engine of google-photos-synology-sync.  *)
(*                                                                         *)
(* The repository holds several implementations of the same services.     *)
(* Each is modelled from its own source and has its own specification:     *)
(*   SpecSvc     SyncService.startSync with a bounded pool of concurrent   *)
(*               downloads (src/unnamed/part_006), driven by the API       *)
(*               routes (src/unnamed/part_002) over the shared run state   *)
(*               of src/server/services/websocket.service.js.              *)
(*   SpecCache   SyncService.startSync over the sync cache, one download   *)
(*               at a time (src/server/services/sync.service.js), driven   *)
(*               by the same routes; SpecCacheApi adds direct calls of     *)
(*               the service's pauseSync, resumeSync and cancelSync.       *)
(*   SpecLegacy  the single-file server of src/index.js: syncPhotos and    *)
(*               its own /sync routes over its global currentSync.         *)
(* The run state (currentSync), the sync directory (disk) and the          *)
(* discovered item list are shared by the specifications.                  *)
(***************************************************************************)
EXTENDS Integers, Sequences, FiniteSets, TLC

(***************************************************************************)
(* Bounds of the model.                                                    *)
(***************************************************************************)
NumItems == 3       \* media items in the remote catalog
MaxRuns == 2        \* startSync / POST /sync requests that are accepted
MaxSetting == 2     \* largest value of the concurrentDownloads setting

(***************************************************************************)
(* Program constants.                                                      *)
(***************************************************************************)
DefaultConcurrent == 3   \* settings.concurrentDownloads || 3
ConcurrentCap == 5       \* Math.min(..., 5)

Runs == 1..MaxRuns
Positions == 1..NumItems

Min(a, b) == IF a <= b THEN a ELSE b

(***************************************************************************)
(* Media items of the catalog, as the Google Photos API returns them.      *)
(* Every third item is a video.                                            *)
(***************************************************************************)
IsVideoNo(n) == n % 3 = 0

Item(n) ==
    [id |-> "m" \o ToString(n),
     filename |-> "IMG" \o ToString(n) \o (IF IsVideoNo(n) THEN ".mov" ELSE ".jpeg"),
     creationTime |-> 1000 + n,
     video |-> IsVideoNo(n)]

AllItems == [n \in Positions |-> Item(n)]

(***************************************************************************)
(* String helpers: path.extname, path.basename(name, ext) and              *)
(* String.prototype.split('.')[0], computed character by character.        *)
(***************************************************************************)
CharAt(s, i) == SubSeq(s, i, i)

RECURSIVE LastDot(_, _)
LastDot(s, i) ==
    IF i = 0 THEN 0
    ELSE IF CharAt(s, i) = "." THEN i
    ELSE LastDot(s, i - 1)

RECURSIVE FirstDot(_, _)
FirstDot(s, i) ==
    IF i > Len(s) THEN 0
    ELSE IF CharAt(s, i) = "." THEN i
    ELSE FirstDot(s, i + 1)

\* path.extname: from the last '.' to the end; '' when there is none or the
\* name starts with its only dot.
extname(s) ==
    LET d == LastDot(s, Len(s))
    IN  IF d <= 1 THEN "" ELSE SubSeq(s, d, Len(s))

\* path.basename(s, ext) for a name without directories.
basename(s, ext) ==
    IF ext # "" /\ Len(s) > Len(ext) /\ SubSeq(s, Len(s) - Len(ext) + 1, Len(s)) = ext
    THEN SubSeq(s, 1, Len(s) - Len(ext))
    ELSE s

\* file.split('.')[0]
splitDot0(s) ==
    LET d == FirstDot(s, 1)
    IN  IF d = 0 THEN s ELSE SubSeq(s, 1, d - 1)

(***************************************************************************)
(* State.                                                                  *)
(***************************************************************************)
VARIABLES
    currentSync,     \* the run state record published to subscribers
    syncInProgress,  \* SyncService.syncInProgress
    settings,        \* the settings a run loads
    discovered,      \* discoveryResults.items, a sequence of items
    disk,            \* names of the files in the sync directory
    pc,              \* [Runs -> position of each startSync invocation]
    queue,           \* [Runs -> remaining work, positions in discovered]
    active,          \* [Runs -> keys (positions) of the activeDownloads Map]
    awaiting,        \* [Runs -> transfers the pending Promise.race/all covers]
    processed,       \* [Runs -> the invocation's local processedItems]
    xfers,           \* transfers in flight, records [run, pos]
    syncCache,       \* SyncCacheService.syncCache: [cached, verified], sets of positions
    verificationInProgress,  \* SyncService.verificationInProgress
    \* history, read by the properties only
    signalled,       \* [Runs -> cancellation was signalled while it ran]
    pauseHist,       \* "none" | "paused" | "resumed" since the last run began
    result,          \* [Runs -> final status it published, "none" before]
    cleaned,         \* [Runs -> the removed-files cleanup ran in it]
    \* PhotosService of src/unnamed/part_003
    downloadQueue,   \* this.downloadQueue, positions in discovered
    activeDownloads, \* this.activeDownloads, a counter
    photosIsCancelled,  \* this.isCancelled
    syncState,       \* this.syncState: [Positions -> "none" | "synced" | "failed"]
    task,            \* [Positions -> phase of the item's callback in the batch]
    retryItems,      \* the failed items retryFailedDownloads has still to process
    qpc,             \* position of processDownloadQueue
    \* discovery
    catalog,         \* the remote library: a sequence of pages of item numbers
    disc,            \* the discovery call: its locals and what it returned
    lastDiscoveryResults,  \* the stored discovery snapshot
    discCalls,       \* number of discovery calls made
    requests,        \* [Requesters -> a POST /discover request and its discovery call]
    \* discovery cache of the PhotosService
    cacheFiles,      \* [Users -> the file .discovery_cache_<user>.json, its userId and timestamp]
    currentUserId,   \* this.currentUserId
    load,            \* the loadDiscoveryCache call under way and what it returned
    \* WebSocketService
    wsImpl,          \* which WebSocketService the server runs
    wss,             \* the WebSocket server has been initialized
    subs,            \* [Subscribers -> connection state, inbox, pending initial status]
    syncVersion,     \* number of updates made to currentSync
    discVersion,     \* number of updates made to discoveryProgress
    publishFailed,   \* history: a publish call has thrown
    \* the persisted ledger
    storeImpl,       \* which loader reads the file: "cache" | "state"
    storeFile,       \* the file .sync_cache.json (.sync_state.json for "state")
    isDirty,         \* SyncCacheService.isDirty
    sinceSave,       \* Date.now() - this.lastSave, in ticks
    boot,            \* the process: its position, and what the load read and gave
    \* the browser client of src/src/context/WebSocketContext.jsx
    client,          \* [sockets, wsRef, reconnectTimeout, connectionTimeout, reconnectAttempts]
    \* rate limiter of the PhotosService
    limiter,         \* [requestsThisMinute, lastRequestTime]
    now,             \* Date.now(), in ticks
    call,            \* [Callers -> the caller's rateLimitedRequest invocation]
    issued,          \* history: [time -> number of requests issued at that time]
    limited,         \* history: the provider has answered 429
    \* contents of the files PhotosService.downloadPhoto writes
    emptyFiles,      \* names of the files in the sync directory of size zero
    partialFiles,    \* names of the files a failed write left incomplete
    tries,           \* [Positions -> downloadPhoto's local attempts counter]
    attempts,        \* history: [Positions -> download requests sent for the item]
    denied           \* history: items a download request of which was answered 401 or 403

vars == <<currentSync, syncInProgress, settings, discovered, disk, pc, queue,
          active, awaiting, processed, xfers, syncCache, verificationInProgress,
          signalled, pauseHist, result, cleaned, downloadQueue, activeDownloads,
          photosIsCancelled, syncState, task, retryItems, qpc, catalog, disc,
          lastDiscoveryResults, discCalls, limiter, now, call, issued, limited,
          emptyFiles, partialFiles, tries, attempts, denied, requests, cacheFiles,
          currentUserId, load, wsImpl, wss, subs, syncVersion, discVersion,
          publishFailed, storeImpl, storeFile, isDirty, sinceSave, boot, client>>

runVars == <<pc, queue, active, awaiting, processed, xfers>>
envVars == <<settings, discovered>>
ledgerVars == <<syncCache, verificationInProgress>>
histVars == <<signalled, pauseHist, result, cleaned>>
photoVars == <<downloadQueue, activeDownloads, photosIsCancelled, syncState, task,
               retryItems, qpc>>
discVars == <<catalog, disc, lastDiscoveryResults, discCalls, requests>>
limVars == <<limiter, now, call, issued, limited>>
fileVars == <<emptyFiles, partialFiles, tries, attempts, denied>>
cacheVars == <<cacheFiles, currentUserId, load>>
wsVars == <<wsImpl, wss, subs, syncVersion, discVersion, publishFailed>>
storeVars == <<storeImpl, storeFile, isDirty, sinceSave, boot>>
clientVars == <<client>>

\* A run executes from its startSync call until startSync returns; a request
\* still waiting for authenticate() ("auth") is not yet a run.
Live(r) == pc[r] \notin {"idle", "auth", "done"}
LiveRuns == {r \in Runs : Live(r)}

(***************************************************************************)
(* websocket.service.js: the run state and its two writers.                *)
(***************************************************************************)
IdleSync ==
    [status |-> "idle", isPaused |-> FALSE, isCancelled |-> FALSE,
     processedItems |-> 0, totalItems |-> 0]

\* resetSyncStatus(): a fresh record.
resetSyncStatus == IdleSync

\* updateSyncStatus(update): shallow merge of the given fields.
updateStatus(cs, st) == [cs EXCEPT !.status = st]
updateProcessed(cs, n) == [cs EXCEPT !.processedItems = n]


(***************************************************************************)
(* SyncService of src/unnamed/part_006.                                    *)
(***************************************************************************)
\* Math.min(settings.concurrentDownloads || 3, 5)
concurrentDownloads(s) ==
    Min(IF s.concurrentDownloads = 0 THEN DefaultConcurrent ELSE s.concurrentDownloads,
        ConcurrentCap)

\* The name startSync downloads an item to: `${photo.id}${extension}`.
Svc_downloadName(item) == item.id \o (IF item.video THEN ".mp4" ELSE ".jpg")

\* generatePhotoFileName(photo): `${name}_${timestamp}${ext}` of photo.filename.
generatePhotoFileName(photo) ==
    LET ext == extname(photo.filename)
    IN  basename(photo.filename, ext) \o "_" \o ToString(photo.creationTime) \o ext

\* The queue build: items whose media type is disabled are dropped.
\* Every media type taken as enabled.
Svc_typeEnabledAll(s, item) == TRUE

Svc_typeEnabled(s, item) ==
    ~((~s.syncPhotos /\ ~item.video) \/ (~s.syncVideos /\ item.video))

Svc_validQueue(s, photos) ==
    SelectSeq([i \in 1..Len(photos) |-> i], LAMBDA i : Svc_typeEnabled(s, photos[i]))

\* activeDownloads.set(item.id, promise) / activeDownloads.delete(item.id):
\* the Map is keyed by item id, a key holds one transfer.
MapSet(keys, photos, p) == {k \in keys : photos[k].id # photos[p].id} \cup {p}
MapDelete(keys, photos, p) == {k \in keys : photos[k].id # photos[p].id}

\* The inner while of startSync: starts downloads while the pool has room.
\* It runs synchronously, so the flags it re-reads cannot change inside it.
RECURSIVE Svc_schedule(_, _, _, _, _, _, _)
Svc_schedule(q, keys, proc, started, lim, photos, dsk) ==
    IF q = <<>> \/ Cardinality(keys) >= lim
    THEN [q |-> q, keys |-> keys, proc |-> proc, started |-> started]
    ELSE IF Svc_downloadName(photos[Head(q)]) \notin dsk
         THEN Svc_schedule(Tail(q), MapSet(keys, photos, Head(q)), proc,
                           started \cup {Head(q)}, lim, photos, dsk)
         ELSE Svc_schedule(Tail(q), keys, proc + 1, started, lim, photos, dsk)

\* Whether the outer while takes another turn.
Svc_loopCond(q, keys, cs) == (q # <<>> \/ keys # {}) /\ ~cs.isCancelled

\* Whether the removed-files cleanup is to run after the loop.
Svc_cleanupDue(cs, s) == ~cs.isCancelled /\ s.cleanupRemovedFiles

\* The final status of a run that reached the end of the try block.
Svc_finalStatus(cs) ==
    IF cs.isCancelled THEN "cancelled"
    ELSE IF cs.isPaused THEN "paused"
    ELSE "completed"

\* The end of startSync after the remaining downloads have been awaited:
\* the cleanup if it is due, else the final status.
Svc_finish(q, keys, proc, cs) ==
    IF Svc_cleanupDue(cs, settings)
    THEN [pc |-> "cleanup", q |-> q, keys |-> keys, proc |-> proc, started |-> {},
          cs |-> cs, wait |-> {}]
    ELSE [pc |-> "done", q |-> q, keys |-> keys, proc |-> proc, started |-> {},
          cs |-> updateStatus(cs, Svc_finalStatus(cs)), wait |-> {}]

\* The run of startSync from the top of the outer while to its next await.
\* Gives the run's new position and locals and the run state it publishes.
Svc_step(q, keys, proc, cs, dsk) ==
    IF ~Svc_loopCond(q, keys, cs)
    THEN IF keys # {}
         THEN [pc |-> "drain", q |-> q, keys |-> keys, proc |-> proc,
               started |-> {}, cs |-> cs, wait |-> keys]
         ELSE Svc_finish(q, keys, proc, cs)
    ELSE IF cs.isPaused
    THEN [pc |-> "sleep", q |-> q, keys |-> keys, proc |-> proc,
          started |-> {}, cs |-> cs, wait |-> {}]
    ELSE LET s == Svc_schedule(q, keys, proc, {}, concurrentDownloads(settings),
                               discovered, dsk)
             cs1 == IF s.proc # proc THEN updateProcessed(cs, s.proc) ELSE cs
         IN  IF s.keys # {}
             THEN [pc |-> "race", q |-> s.q, keys |-> s.keys, proc |-> s.proc,
                   started |-> s.started, cs |-> cs1, wait |-> s.keys]
             ELSE [Svc_finish(s.q, s.keys, s.proc, cs1) EXCEPT !.started = s.started]

(***************************************************************************)
(* Initial states: the server has started, no sync has been requested.     *)
(***************************************************************************)
StrayFile == "m9.jpg"      \* a local file whose id is not in the catalog
InitialFiles == {StrayFile, Svc_downloadName(Item(1))}

SettingsSvc ==
    [syncPhotos : BOOLEAN, syncVideos : BOOLEAN, cleanupRemovedFiles : BOOLEAN,
     concurrentDownloads : 0..MaxSetting]

NoRuns ==
    /\ pc = [r \in Runs |-> "idle"]
    /\ queue = [r \in Runs |-> <<>>]
    /\ active = [r \in Runs |-> {}]
    /\ awaiting = [r \in Runs |-> {}]
    /\ processed = [r \in Runs |-> 0]
    /\ xfers = {}
    /\ signalled = [r \in Runs |-> FALSE]
    /\ pauseHist = "none"
    /\ result = [r \in Runs |-> "none"]
    /\ cleaned = [r \in Runs |-> FALSE]

\* An empty sync cache, no verification under way.
NoLedger ==
    /\ syncCache = [cached |-> {}, verified |-> {}]
    /\ verificationInProgress = FALSE

\* The PhotosService after construction: nothing queued, nothing active.
NoTasks == [p \in Positions |-> "none"]

NoPhotoQueue ==
    /\ downloadQueue = <<>>
    /\ activeDownloads = 0
    /\ photosIsCancelled = FALSE
    /\ syncState = [p \in Positions |-> "none"]
    /\ task = NoTasks
    /\ retryItems = <<>>
    /\ qpc = "idle"

\* No discovery has been requested.
NoCall ==
    [impl |-> "none", pc |-> "idle", continueDiscovery |-> FALSE, mediaItems |-> <<>>,
     nextPageToken |-> 0, pageCount |-> 0, items |-> <<>>, hasMore |-> "undefined"]

\* lastDiscoveryResults = null / this.discoveryResults = null
NoSnapshot ==
    [present |-> FALSE, items |-> <<>>, totalItems |-> 0, photoCount |-> 0,
     videoCount |-> 0, estimatedSizeBytes |-> 0, pagesScanned |-> 0,
     hasMore |-> "undefined"]

MaxRequesters == 2       \* clients that send POST /discover
Requesters == 1..MaxRequesters

NoRequests == requests = [k \in Requesters |-> NoCall]

NoDiscovery ==
    /\ catalog = <<>>
    /\ disc = NoCall
    /\ lastDiscoveryResults = NoSnapshot
    /\ discCalls = 0
    /\ NoRequests

\* The rate limiter after construction; no rateLimitedRequest call under way.
MaxCallers == 2          \* concurrent callers of rateLimitedRequest
MaxTime == 4             \* ticks of the clock
Callers == 1..MaxCallers

NoResponse == [status |-> 0, retryAfter |-> -1]

IdleCall ==
    [pc |-> "idle", wakeAt |-> 0, response |-> NoResponse, limitedAt |-> -1,
     retries |-> 0, thrown |-> NoResponse]

\* A call that has ended: its result, the locals gone.
EndedCall(c, how, resp) ==
    [IdleCall EXCEPT !.pc = how, !.retries = c.retries,
                     !.thrown = IF how = "thrown" THEN resp ELSE NoResponse]

MaxSubscribers == 2      \* WebSocket clients
Subscribers == 1..MaxSubscribers

\* A client that has not connected.
NoSubscriber == [state |-> "none", throws |-> FALSE, inbox |-> <<>>, pending |-> -1,
                 attachedSync |-> 0, attachedDisc |-> 0]

\* WebSocketService after construction: no server, no client, the initial
\* currentSync and discoveryProgress.
NoSubscribers ==
    /\ wsImpl = "services"
    /\ wss = FALSE
    /\ subs = [c \in Subscribers |-> NoSubscriber]
    /\ syncVersion = 0
    /\ discVersion = 0
    /\ publishFailed = FALSE

MaxSockets == 4          \* WebSocket objects the client creates in a behaviour

SocketIds == 1..MaxSockets

\* The provider before its effect runs: no socket, no timer.
NoSockets ==
    [sockets |-> [s \in SocketIds |-> "none"], wsRef |-> 0, reconnectTimeout |-> FALSE,
     connectionTimeout |-> 0, reconnectAttempts |-> 0]

NoClient == client = NoSockets

\* A file of the sync directory that may hold a ledger: absent, not JSON
\* ("garbage"), a JSON object with a version and, when hasItems, the items, or
\* a JSON array of entries.
StoreFile(kind, version, hasItems, ledger) ==
    [kind |-> kind, version |-> version, hasItems |-> hasItems, items |-> ledger]

EmptyLedger == [cached |-> {}, verified |-> {}]

AbsentFile == StoreFile("absent", 0, FALSE, EmptyLedger)

NoBoot == [pc |-> "down", threw |-> FALSE, from |-> AbsentFile, loaded |-> EmptyLedger]

\* No ledger file, no process.
NoStore ==
    /\ storeImpl = "cache"
    /\ storeFile = AbsentFile
    /\ isDirty = FALSE
    /\ sinceSave = 0
    /\ boot = NoBoot

\* loadSyncState(syncDir): readFile of a missing file, JSON.parse of what is
\* not JSON and new Map of what is not an array of entries all throw into the
\* catch, which starts with an empty state.
loadSyncState(file) ==
    IF file.kind = "array" THEN [threw |-> FALSE, cache |-> file.items]
    ELSE [threw |-> FALSE, cache |-> EmptyLedger]

\* this.syncState as loadSyncState leaves it.
Queue_loaded(file) ==
    [p \in Positions |-> IF p \in loadSyncState(file).cache.cached THEN "synced" ELSE "none"]

\* findDuplicateFile(item, syncDir) not finding the file of the item: a synced
\* entry whose recorded path is gone is deleted from this.syncState.
Queue_missing(state, p) ==
    IF state[p] = "synced" THEN [state EXCEPT ![p] = "none"] ELSE state

Users == {"u1", "u2"}

\* No cache file, no user seen yet, no load of the cache under way.
NoCacheFile == [userId |-> "none", timestamp |-> 0]
NoLoad == [pc |-> "idle", path |-> "none", owner |-> "none", user |-> "none", age |-> 0]

NoCacheLoad ==
    /\ cacheFiles = [u \in Users |-> NoCacheFile]
    /\ currentUserId = "none"
    /\ load = NoLoad

NoFiles ==
    /\ emptyFiles = {}
    /\ partialFiles = {}
    /\ tries = [p \in Positions |-> 0]
    /\ attempts = [p \in Positions |-> 0]
    /\ denied = {}

NoLimiter ==
    /\ limiter = [requestsThisMinute |-> 0, lastRequestTime |-> 0]
    /\ now = 0
    /\ call = [c \in Callers |-> IdleCall]
    /\ issued = [t \in 0..MaxTime |-> 0]
    /\ limited = FALSE

\* The item lists a run may find in the discovery results: a prefix of the
\* catalog, or a list that names an item twice, as a continued discovery
\* leaves it when a page is fetched twice (the merge appends, Disc_merged).
DiscoveredLists ==
    {SubSeq(AllItems, 1, n) : n \in 0..NumItems} \cup {<<Item(1), Item(1)>>}

InitSvc ==
    /\ currentSync = IdleSync
    /\ syncInProgress = FALSE
    /\ settings \in SettingsSvc
    /\ discovered \in DiscoveredLists
    /\ disk \in SUBSET InitialFiles
    /\ NoRuns
    /\ NoLedger
    /\ NoPhotoQueue
    /\ NoDiscovery
    /\ NoLimiter
    /\ NoCacheLoad
    /\ NoSubscribers
    /\ NoStore
    /\ NoClient
    /\ NoFiles

\* The run slot the next accepted request uses.
FreeRun(r) == pc[r] = "idle" /\ \A o \in Runs : o < r => pc[o] # "idle"

\* The transfers a step of run r starts.
Started(r, ps) == {[run |-> r, pos |-> p] : p \in ps}

\* The finally of startSync, reached when the run has ended:
\* this.syncInProgress = false.
Svc_finallyHeld(pcv, inProgress) == inProgress

Svc_finally(pcv, inProgress) == IF pcv = "done" THEN FALSE ELSE inProgress

\* Stores the outcome of Svc_step / Svc_finish for run r.
Svc_apply(r, st) ==
    /\ pc' = [pc EXCEPT ![r] = st.pc]
    /\ queue' = [queue EXCEPT ![r] = st.q]
    /\ active' = [active EXCEPT ![r] = st.keys]
    /\ awaiting' = [awaiting EXCEPT ![r] = st.wait]
    /\ processed' = [processed EXCEPT ![r] = st.proc]
    /\ currentSync' = st.cs
    /\ syncInProgress' = Svc_finally(st.pc, syncInProgress)
    /\ result' = IF st.pc = "done" THEN [result EXCEPT ![r] = st.cs.status] ELSE result

\* POST /sync up to its await of authenticate().
PostSync(r) ==
    /\ FreeRun(r)
    /\ currentSync.status \notin {"running", "paused"}
    /\ pc' = [pc EXCEPT ![r] = "auth"]
    /\ UNCHANGED <<currentSync, syncInProgress, disk, queue, active, awaiting,
                   processed, xfers>>
    /\ UNCHANGED <<envVars, photoVars, discVars, limVars, cacheVars, wsVars, storeVars, clientVars, fileVars, ledgerVars, histVars>>

\* startSync(auth) up to its first await (checkStorageSpace).
Svc_startSync(r) ==
    /\ pc[r] = "auth"
    /\ IF syncInProgress
       THEN \* throw new Error('Sync is already in progress')
            /\ pc' = [pc EXCEPT ![r] = "idle"]
            /\ UNCHANGED <<currentSync, syncInProgress, result, pauseHist>>
       ELSE IF ~settings.syncPhotos /\ ~settings.syncVideos
       THEN \* both types disabled: caught, status 'error'
            /\ pc' = [pc EXCEPT ![r] = "done"]
            /\ currentSync' = updateStatus(resetSyncStatus, "error")
            /\ syncInProgress' = FALSE
            /\ result' = [result EXCEPT ![r] = "error"]
            /\ pauseHist' = "none"
       ELSE /\ pc' = [pc EXCEPT ![r] = "storage"]
            /\ currentSync' = resetSyncStatus
            /\ syncInProgress' = TRUE
            /\ pauseHist' = "none"
            /\ UNCHANGED result
    /\ UNCHANGED <<disk, queue, active, awaiting, processed, xfers>>
    /\ UNCHANGED <<envVars, photoVars, discVars, limVars, cacheVars, wsVars, storeVars, clientVars, fileVars, ledgerVars, signalled, cleaned>>

\* startSync from the return of checkStorageSpace to its next await.
Svc_afterStorage(r) ==
    /\ pc[r] = "storage"
    /\ LET cs1 == updateStatus(currentSync, "running")
           cs2 == [cs1 EXCEPT !.totalItems = Len(discovered)]
           q == Svc_validQueue(settings, discovered)
           ended == [pc |-> "done", q |-> <<>>, keys |-> {}, proc |-> 0,
                     started |-> {}, wait |-> {}, cs |-> cs1]
           st == IF Len(discovered) = 0
                 THEN \* 'No photos found to sync. Run discovery first.'
                      [ended EXCEPT !.cs = updateStatus(cs1, "error")]
                 ELSE IF q = <<>>
                 THEN \* 'No items to download after filtering'
                      [ended EXCEPT !.cs = updateStatus(cs2, "completed")]
                 ELSE Svc_step(q, {}, 0, cs2, disk)
       IN  /\ Svc_apply(r, st)
           /\ xfers' = xfers \cup Started(r, st.started)
    /\ UNCHANGED <<disk, envVars, photoVars, discVars, limVars, cacheVars, wsVars, storeVars, clientVars, fileVars, ledgerVars>>
    /\ UNCHANGED <<signalled, pauseHist, cleaned>>

\* The pause sleep of the outer while ends (setTimeout 1000).
Svc_wake(r) ==
    /\ pc[r] = "sleep"
    /\ LET st == Svc_step(queue[r], active[r], processed[r], currentSync, disk)
       IN  /\ Svc_apply(r, st)
           /\ xfers' = xfers \cup Started(r, st.started)
    /\ UNCHANGED <<disk, envVars, photoVars, discVars, limVars, cacheVars, wsVars, storeVars, clientVars, fileVars, ledgerVars>>
    /\ UNCHANGED <<signalled, pauseHist, cleaned>>

\* downloadItem of one transfer settles; its then/catch/finally callbacks run
\* and, when the run awaits this transfer, startSync continues to its next await.
Svc_settle(x, ok) ==
    /\ x \in xfers
    /\ LET r == x.run
           name == Svc_downloadName(discovered[x.pos])
           dsk == IF ok THEN disk \cup {name} ELSE disk
           proc == IF ok THEN processed[r] + 1 ELSE processed[r]
           cs == IF ok THEN updateProcessed(currentSync, proc) ELSE currentSync
           keys == MapDelete(active[r], discovered, x.pos)
           rest == awaiting[r] \ {x.pos}
           st == IF pc[r] = "race" /\ x.pos \in awaiting[r]
                 THEN Svc_step(queue[r], keys, proc, cs, dsk)
                 ELSE IF pc[r] = "drain" /\ rest = {}
                 THEN Svc_finish(queue[r], keys, proc, cs)
                 ELSE [pc |-> pc[r], q |-> queue[r], keys |-> keys, proc |-> proc,
                       started |-> {}, cs |-> cs, wait |-> rest]
       IN  /\ disk' = dsk
           /\ Svc_apply(r, st)
           /\ xfers' = (xfers \ {x}) \cup Started(r, st.started)
    /\ UNCHANGED <<envVars, photoVars, discVars, limVars, cacheVars, wsVars, storeVars, clientVars, fileVars, ledgerVars>>
    /\ UNCHANGED <<signalled, pauseHist, cleaned>>

\* The names cleanupRemovedFiles keeps: generatePhotoFileName of every item.
currentPhotoNames(photos) == {generatePhotoFileName(photos[i]) : i \in 1..Len(photos)}

\* cleanupRemovedFiles(syncDir, photos): the files it unlinks.
Svc_cleanupTargets(files, photos) == {f \in files : f \notin currentPhotoNames(photos)}

\* cleanupRemovedFiles and the final status update of startSync.
Svc_cleanupRemovedFiles(r) ==
    /\ pc[r] = "cleanup"
    /\ disk' = disk \ Svc_cleanupTargets(disk, discovered)
    /\ cleaned' = [cleaned EXCEPT ![r] = TRUE]
    /\ currentSync' = updateStatus(currentSync, Svc_finalStatus(currentSync))
    /\ result' = [result EXCEPT ![r] = Svc_finalStatus(currentSync)]
    /\ pc' = [pc EXCEPT ![r] = "done"]
    /\ syncInProgress' = FALSE
    /\ UNCHANGED <<queue, active, awaiting, processed, xfers>>
    /\ UNCHANGED <<envVars, photoVars, discVars, limVars, cacheVars, wsVars, storeVars, clientVars, fileVars, ledgerVars, signalled, pauseHist>>

(***************************************************************************)
(* The API routes of src/unnamed/part_002 over the run state.  A request   *)
(* the route rejects changes nothing.                                      *)
(***************************************************************************)
Route_pause(cs) == [cs EXCEPT !.isPaused = TRUE, !.status = "paused"]
Route_resume(cs) == [cs EXCEPT !.isPaused = FALSE, !.status = "running"]
Route_cancel(cs) == [cs EXCEPT !.isCancelled = TRUE, !.status = "cancelled"]

\* History of the signals the runs have received.
NoteResume == pauseHist' = IF pauseHist = "paused" THEN "resumed" ELSE pauseHist
NoteCancel == signalled' = [r \in Runs |-> Live(r) \/ signalled[r]]

\* POST /sync/pause
PostPause ==
    /\ IF currentSync.status = "running"
       THEN /\ currentSync' = Route_pause(currentSync)
            /\ pauseHist' = "paused"
       ELSE UNCHANGED <<currentSync, pauseHist>>
    /\ UNCHANGED <<syncInProgress, disk, envVars, photoVars, discVars, limVars, cacheVars, wsVars, storeVars, clientVars, fileVars, ledgerVars>>
    /\ UNCHANGED runVars
    /\ UNCHANGED <<signalled, result, cleaned>>

\* POST /sync/resume
PostResume ==
    /\ IF currentSync.status = "paused"
       THEN /\ currentSync' = Route_resume(currentSync)
            /\ NoteResume
       ELSE UNCHANGED <<currentSync, pauseHist>>
    /\ UNCHANGED <<syncInProgress, disk, envVars, photoVars, discVars, limVars, cacheVars, wsVars, storeVars, clientVars, fileVars, ledgerVars>>
    /\ UNCHANGED runVars
    /\ UNCHANGED <<signalled, result, cleaned>>

\* POST /sync/cancel
PostCancel ==
    /\ IF currentSync.status \in {"running", "paused"}
       THEN /\ currentSync' = Route_cancel(currentSync)
            /\ NoteCancel
       ELSE UNCHANGED <<currentSync, signalled>>
    /\ UNCHANGED <<syncInProgress, disk, envVars, photoVars, discVars, limVars, cacheVars, wsVars, storeVars, clientVars, fileVars, ledgerVars>>
    /\ UNCHANGED runVars
    /\ UNCHANGED <<pauseHist, result, cleaned>>

NextSvc ==
    \/ \E r \in Runs : PostSync(r)
    \/ \E r \in Runs : Svc_startSync(r)
    \/ \E r \in Runs : Svc_afterStorage(r)
    \/ \E r \in Runs : Svc_wake(r)
    \/ \E x \in xfers, ok \in BOOLEAN : Svc_settle(x, ok)
    \/ \E r \in Runs : Svc_cleanupRemovedFiles(r)
    \/ PostPause
    \/ PostResume
    \/ PostCancel

SpecSvc == InitSvc /\ [][NextSvc]_vars

(***************************************************************************)
(* Properties of the removed-files cleanup and of repeated runs (SpecSvc). *)
(***************************************************************************)
\* The local files of the currently discovered items, as startSync names them.
Svc_discoveredFiles == {Svc_downloadName(discovered[i]) : i \in 1..Len(discovered)}

\* C7: when the removed-files cleanup runs it deletes only local files that
\* correspond to no item of the discovered set: no step removes from the sync
\* directory the file of a currently discovered item, not even one downloaded
\* earlier in the same run.
C7_CleanupKeepsDiscoveredFiles ==
    [][\A f \in disk \ disk' : f \notin Svc_discoveredFiles]_vars

\* The first run ended 'completed' and resolved every item of its queue
\* (downloaded it or found it on disk).
Svc_firstRunSynced ==
    /\ result[1] = "completed"
    /\ processed[1] = Len(Svc_validQueue(settings, discovered))

\* C8: idempotence: after a first run that synced every item, a second run over
\* the same discovered set starts no download.
C8_SecondRunDownloadsNothing ==
    [][Svc_firstRunSynced => \A x \in xfers' \ xfers : x.run # 2]_vars

\* C6: the removed-files cleanup runs only after a full, uninterrupted
\* completion of the run and never in a cancelled one: a run enters the
\* cleanup only in a state where it is neither paused nor cancelled.
C6_CleanupOnlyOnFullCompletion ==
    [][\A r \in Runs : pc'[r] = "cleanup" /\ pc[r] # "cleanup"
                          => ~currentSync'.isPaused /\ ~currentSync'.isCancelled]_vars

(***************************************************************************)
(* SyncService of src/server/services/sync.service.js over the sync cache  *)
(* of src/server/services/sync.cache.service.js.                           *)
(***************************************************************************)
\* id.slice(-8)
Last8(s) == IF Len(s) <= 8 THEN s ELSE SubSeq(s, Len(s) - 7, Len(s))

\* photosService.generateFileName(item): `${name}_${timestamp}_${uniqueId}${ext}`
generateFileName(item) ==
    LET ext == extname(item.filename)
    IN  basename(item.filename, ext) \o "_" \o ToString(item.creationTime)
            \o "_" \o Last8(item.id) \o ext

\* syncCacheService.updateItem(id, {localPath, ...}): replaces the entry.
Cache_updateItem(cache, i) ==
    [cached |-> cache.cached \cup {i}, verified |-> cache.verified \ {i}]

\* syncCacheService.updateItem(id, {..., verified: true})
Cache_markVerified(cache, i) ==
    [cached |-> cache.cached \cup {i}, verified |-> cache.verified \cup {i}]

\* The file loop of verifyExistingFiles: every file that carries the generated
\* name of a discovered item is recorded as verified; a set cancel flag ends
\* the loop at its first file.
Cache_verifyFiles(cache, cs, dsk) ==
    IF cs.isCancelled THEN cache
    ELSE [cached |-> cache.cached \cup
                       {i \in 1..Len(discovered) : generateFileName(discovered[i]) \in dsk},
          verified |-> cache.verified \cup
                       {i \in 1..Len(discovered) : generateFileName(discovered[i]) \in dsk}]

Cache_verifyStatus(cs, dsk) ==
    IF cs.isCancelled \/ dsk = {} THEN cs ELSE updateStatus(cs, "verifying")

\* itemsToSync: the discovered items without a verified entry whose file exists.
Cache_itemsToSync(cache, dsk) ==
    SelectSeq([i \in 1..Len(discovered) |-> i],
              LAMBDA i : ~(i \in cache.cached /\ i \in cache.verified
                           /\ generateFileName(discovered[i]) \in dsk))

\* The progress update after each item.
Cache_progress(cs, n, total) ==
    [cs EXCEPT !.status = "running", !.processedItems = n, !.totalItems = total]

\* The for loop of startSync from the top of an iteration (Cache_loop) or from
\* its call of downloadItem (Cache_item) to the next await: "finish" awaits the
\* cache cleanup, "poll" the pause poll, "xfer" the transfer of the head item.
RECURSIVE Cache_loop(_, _, _, _, _)
RECURSIVE Cache_item(_, _, _, _, _)
Cache_loop(rem, proc, cs, cache, dsk) ==
    IF rem = <<>> \/ cs.isCancelled
    THEN [pc |-> "finish", q |-> rem, proc |-> proc, cs |-> cs, cache |-> cache,
          started |-> {}]
    ELSE IF cs.isPaused
    THEN [pc |-> "poll", q |-> rem, proc |-> proc, cs |-> cs, cache |-> cache,
          started |-> {}]
    ELSE Cache_item(rem, proc, cs, cache, dsk)

Cache_item(rem, proc, cs, cache, dsk) ==
    LET i == Head(rem)
    IN  IF i \in cache.cached /\ generateFileName(discovered[i]) \in dsk
        THEN \* downloadItem returns {success, skipped}
             Cache_loop(Tail(rem), proc + 1,
                        Cache_progress(cs, proc + 1, proc + Len(rem)),
                        Cache_markVerified(cache, i), dsk)
        ELSE [pc |-> "xfer", q |-> rem, proc |-> proc, cs |-> cs, cache |-> cache,
              started |-> {i}]

\* startSync from the return of verifyExistingFiles to its next await.
Cache_begin(cs, cache, dsk) ==
    LET items == Cache_itemsToSync(cache, dsk)
    IN  IF items = <<>>
        THEN [pc |-> "done", q |-> <<>>, proc |-> 0, cache |-> cache, started |-> {},
              cs |-> updateStatus(cs, "completed")]
        ELSE Cache_loop(items, 0, updateStatus(cs, "running"), cache, dsk)

\* Stores the outcome of the operators above for run r.
Cache_apply(r, st, inProgress) ==
    /\ pc' = [pc EXCEPT ![r] = st.pc]
    /\ queue' = [queue EXCEPT ![r] = st.q]
    /\ processed' = [processed EXCEPT ![r] = st.proc]
    /\ currentSync' = st.cs
    /\ syncCache' = st.cache
    /\ syncInProgress' = IF st.pc = "done" THEN FALSE ELSE inProgress
    /\ result' = IF st.pc = "done" THEN [result EXCEPT ![r] = st.cs.status] ELSE result

SettingsCache == [syncPhotos : {TRUE}, syncVideos : {TRUE}]

InitCache ==
    /\ currentSync = IdleSync
    /\ syncInProgress = FALSE
    /\ settings \in SettingsCache
    /\ \E n \in 0..NumItems : discovered = SubSeq(AllItems, 1, n)
    /\ disk \in SUBSET {StrayFile, generateFileName(Item(1))}
    /\ NoRuns
    /\ NoLedger
    /\ NoPhotoQueue
    /\ NoDiscovery
    /\ NoLimiter
    /\ NoCacheLoad
    /\ NoSubscribers
    /\ NoStore
    /\ NoClient
    /\ NoFiles

\* startSync(auth) up to its first await: there is no check of syncInProgress.
\* Without discovery results it awaits loadDiscoveryCache; else it calls
\* verifyExistingFiles, which returns at once when a verification is under way
\* (its finally clears the flag all the same) and else awaits the file listing.
Cache_startSync(r) ==
    /\ pc[r] = "auth"
    /\ pauseHist' = "none"
    /\ LET cs == updateStatus(currentSync, "initializing")
       IN  IF Len(discovered) = 0
           THEN /\ pc' = [pc EXCEPT ![r] = "load"]
                /\ currentSync' = cs
                /\ syncInProgress' = TRUE
                /\ UNCHANGED <<queue, processed, xfers, ledgerVars, result>>
           ELSE IF verificationInProgress
           THEN /\ Cache_apply(r, Cache_begin(cs, syncCache, disk), TRUE)
                /\ xfers' = xfers \cup Started(r, Cache_begin(cs, syncCache, disk).started)
                /\ verificationInProgress' = FALSE
           ELSE /\ pc' = [pc EXCEPT ![r] = "verify"]
                /\ currentSync' = updateStatus(cs, "verifying")
                /\ syncInProgress' = TRUE
                /\ verificationInProgress' = TRUE
                /\ UNCHANGED <<queue, processed, xfers, syncCache, result>>
    /\ UNCHANGED <<disk, active, awaiting, envVars, photoVars, discVars, limVars, cacheVars, wsVars, storeVars, clientVars, fileVars, signalled, cleaned>>

\* loadDiscoveryCache returned and there are still no discovery results:
\* 'No items found in discovery cache. Please run discovery first.'
Cache_loadDone(r) ==
    /\ pc[r] = "load"
    /\ pc' = [pc EXCEPT ![r] = "done"]
    /\ currentSync' = updateStatus(currentSync, "error")
    /\ syncInProgress' = FALSE
    /\ result' = [result EXCEPT ![r] = "error"]
    /\ UNCHANGED <<disk, queue, active, awaiting, processed, xfers>>
    /\ UNCHANGED <<envVars, photoVars, discVars, limVars, cacheVars, wsVars, storeVars, clientVars, fileVars, ledgerVars, signalled, pauseHist, cleaned>>

\* verifyExistingFiles from the file listing to its return, and startSync on
\* to its next await.
Cache_verifyDone(r) ==
    /\ pc[r] = "verify"
    /\ LET st == Cache_begin(Cache_verifyStatus(currentSync, disk),
                             Cache_verifyFiles(syncCache, currentSync, disk), disk)
       IN  /\ Cache_apply(r, st, syncInProgress)
           /\ xfers' = xfers \cup Started(r, st.started)
    /\ verificationInProgress' = FALSE
    /\ UNCHANGED <<disk, active, awaiting, envVars, photoVars, discVars, limVars, cacheVars, wsVars, storeVars, clientVars, fileVars, signalled, pauseHist, cleaned>>

\* A tick of the pause poll (setInterval 1000): once isPaused is false the
\* wait ends and startSync goes on to downloadItem.
Cache_pollTick(r) ==
    /\ pc[r] = "poll"
    /\ ~currentSync.isPaused
    /\ LET st == Cache_item(queue[r], processed[r], currentSync, syncCache, disk)
       IN  /\ Cache_apply(r, st, syncInProgress)
           /\ xfers' = xfers \cup Started(r, st.started)
    /\ UNCHANGED <<disk, active, awaiting, envVars, photoVars, discVars, limVars, cacheVars, wsVars, storeVars, clientVars, fileVars, verificationInProgress>>
    /\ UNCHANGED <<signalled, pauseHist, cleaned>>

\* The transfer of downloadItem settles; startSync counts the item, publishes
\* the progress and goes on to its next await.
Cache_settle(x, ok) ==
    /\ x \in xfers
    /\ pc[x.run] = "xfer"
    /\ LET r == x.run
           dsk == IF ok THEN disk \cup {generateFileName(discovered[x.pos])} ELSE disk
           cache == IF ok THEN Cache_markVerified(Cache_updateItem(syncCache, x.pos), x.pos)
                    ELSE syncCache
           cs == Cache_progress(currentSync, processed[r] + 1,
                                processed[r] + Len(queue[r]))
           st == Cache_loop(Tail(queue[r]), processed[r] + 1, cs, cache, dsk)
       IN  /\ disk' = dsk
           /\ Cache_apply(r, st, syncInProgress)
           /\ xfers' = (xfers \ {x}) \cup Started(r, st.started)
    /\ UNCHANGED <<active, awaiting, envVars, photoVars, discVars, limVars, cacheVars, wsVars, storeVars, clientVars, fileVars, verificationInProgress>>
    /\ UNCHANGED <<signalled, pauseHist, cleaned>>

\* syncCacheService.cleanup() returned: status 'completed', and the finally.
Cache_finish(r) ==
    /\ pc[r] = "finish"
    /\ pc' = [pc EXCEPT ![r] = "done"]
    /\ currentSync' = updateStatus(currentSync, "completed")
    /\ syncInProgress' = FALSE
    /\ result' = [result EXCEPT ![r] = "completed"]
    /\ UNCHANGED <<disk, queue, active, awaiting, processed, xfers>>
    /\ UNCHANGED <<envVars, photoVars, discVars, limVars, cacheVars, wsVars, storeVars, clientVars, fileVars, ledgerVars, signalled, pauseHist, cleaned>>

(***************************************************************************)
(* SyncService.pauseSync / resumeSync / cancelSync.  A call that throws    *)
(* 'No sync in progress' changes nothing.                                  *)
(***************************************************************************)
pauseSync ==
    /\ IF syncInProgress
       THEN /\ currentSync' = updateStatus(currentSync, "paused")
            /\ pauseHist' = "paused"
       ELSE UNCHANGED <<currentSync, pauseHist>>
    /\ UNCHANGED <<syncInProgress, disk, envVars, photoVars, discVars, limVars, cacheVars, wsVars, storeVars, clientVars, fileVars, ledgerVars>>
    /\ UNCHANGED runVars
    /\ UNCHANGED <<signalled, result, cleaned>>

resumeSync ==
    /\ IF syncInProgress
       THEN /\ currentSync' = updateStatus(currentSync, "running")
            /\ NoteResume
       ELSE UNCHANGED <<currentSync, pauseHist>>
    /\ UNCHANGED <<syncInProgress, disk, envVars, photoVars, discVars, limVars, cacheVars, wsVars, storeVars, clientVars, fileVars, ledgerVars>>
    /\ UNCHANGED runVars
    /\ UNCHANGED <<signalled, result, cleaned>>

cancelSync ==
    /\ IF syncInProgress
       THEN /\ currentSync' = updateStatus(currentSync, "cancelled")
            /\ syncInProgress' = FALSE
            /\ NoteCancel
       ELSE UNCHANGED <<currentSync, syncInProgress, signalled>>
    /\ UNCHANGED <<disk, envVars, photoVars, discVars, limVars, cacheVars, wsVars, storeVars, clientVars, fileVars, ledgerVars>>
    /\ UNCHANGED runVars
    /\ UNCHANGED <<pauseHist, result, cleaned>>

NextCache ==
    \/ \E r \in Runs : PostSync(r)
    \/ \E r \in Runs : Cache_startSync(r)
    \/ \E r \in Runs : Cache_loadDone(r)
    \/ \E r \in Runs : Cache_verifyDone(r)
    \/ \E r \in Runs : Cache_pollTick(r)
    \/ \E x \in xfers, ok \in BOOLEAN : Cache_settle(x, ok)
    \/ \E r \in Runs : Cache_finish(r)
    \/ PostPause
    \/ PostResume
    \/ PostCancel

SpecCache == InitCache /\ [][NextCache]_vars

\* The same service with its pauseSync, resumeSync and cancelSync called
\* directly as well.
NextCacheApi ==
    \/ NextCache
    \/ pauseSync
    \/ resumeSync
    \/ cancelSync

SpecCacheApi == InitCache /\ [][NextCacheApi]_vars

(***************************************************************************)
(* Properties of the run control (SpecCache).                              *)
(***************************************************************************)
\* C1: at most one sync run executes at any time: a start request made while
\* an earlier run has not finished is rejected, so two invocations of
\* startSync are never under way together.
C1_AtMostOneRun == Cardinality(LiveRuns) <= 1

\* C3: no download is started while the run is paused or after cancellation
\* has been signalled: every step that starts a transfer is taken in a state
\* where isPaused and isCancelled are both false.
C3_NoStartWhilePausedOrCancelled ==
    [][xfers' \ xfers # {} => ~currentSync.isPaused /\ ~currentSync.isCancelled]_vars

\* C4: a run in which cancellation was signalled never ends as 'completed':
\* the step in which such a run returns does not publish status 'completed'.
C4_CancelledRunNeverCompleted ==
    [][\A r \in Runs : signalled[r] /\ Live(r) /\ pc'[r] = "done"
                          => currentSync'.status # "completed"]_vars

(***************************************************************************)
(* The single-file server of src/index.js: syncPhotos and its routes over  *)
(* the global currentSync, which a run replaces wholesale when it begins.  *)
(* Its activeDownloads Set belongs to currentSync and is shared by all     *)
(* invocations: `active` holds the same set of item ids for every run.     *)
(***************************************************************************)
TempDir == ".temp"       \* the directory downloadPhoto streams into

\* The record a run installs when it begins.
Legacy_freshSync(st, total) ==
    [status |-> st, isPaused |-> FALSE, isCancelled |-> FALSE,
     processedItems |-> 0, totalItems |-> total]

\* loadSyncStatus(): the record of sync_status.json when an earlier process
\* left one (here: stopped while a run was 'running'), else the idle record.
Legacy_loadSyncStatus == {IdleSync, Legacy_freshSync("running", NumItems)}

\* `${mediaItem.id}${extension}`
Legacy_downloadName(item) == item.id \o (IF item.video THEN ".mp4" ELSE ".jpg")

\* The media-type test of the inner while.
Legacy_typeEnabled(s, item) ==
    ~((~s.syncPhotos /\ ~item.video) \/ (~s.syncVideos /\ item.video))

Legacy_activeSet == active[1]
Legacy_allRuns(S) == [r \in Runs |-> S]

\* The inner while of syncPhotos from its condition to the next await:
\* "xfer" awaits the download of the item it has shifted, "tick" the 100 ms
\* sleep that follows the inner while.
RECURSIVE Legacy_inner(_, _, _, _)
Legacy_inner(q, cs, act, dsk) ==
    IF \/ q = <<>>
       \/ Cardinality(act) >= concurrentDownloads(settings)
       \/ cs.isPaused
       \/ cs.isCancelled
    THEN [pc |-> "tick", q |-> q, cs |-> cs, act |-> act, started |-> {}]
    ELSE LET item == discovered[Head(q)]
         IN  IF ~Legacy_typeEnabled(settings, item) \/ Legacy_downloadName(item) \in dsk
             THEN Legacy_inner(Tail(q), [cs EXCEPT !.processedItems = @ + 1], act, dsk)
             ELSE [pc |-> "xfer", q |-> Tail(q), cs |-> cs,
                   act |-> act \cup {item.id}, started |-> {Head(q)}]

\* The outer while from its condition to the next await; "final" when the
\* loop is left.
Legacy_outer(q, cs, act, dsk) ==
    IF ~((q # <<>> \/ act # {}) /\ ~cs.isCancelled)
    THEN [pc |-> "final", q |-> q, cs |-> cs, act |-> act, started |-> {}]
    ELSE IF cs.isPaused
    THEN [pc |-> "sleep", q |-> q, cs |-> cs, act |-> act, started |-> {}]
    ELSE Legacy_inner(q, cs, act, dsk)

\* The files the removed-files pass unlinks: file.split('.')[0] is not the id
\* of a remote item.
Legacy_removedFiles(files, photos) ==
    {f \in files : splitDot0(f) \notin {photos[i].id : i \in 1..Len(photos)}}

\* The code after the outer while, which runs without an await: the final
\* status and, in a run neither cancelled nor paused, the removed-files pass.
\* unlinkSync throws on the .temp directory; the files listed before it are
\* gone by then and the catch publishes 'error'.
Legacy_final(r, cs, dsk) ==
    /\ pc' = [pc EXCEPT ![r] = "done"]
    /\ IF cs.isCancelled \/ cs.isPaused \/ ~settings.deleteRemoved
       THEN /\ disk' = dsk
            /\ currentSync' = updateStatus(cs, Svc_finalStatus(cs))
            /\ UNCHANGED cleaned
       ELSE /\ cleaned' = [cleaned EXCEPT ![r] = TRUE]
            /\ IF TempDir \in dsk
               THEN /\ \E gone \in SUBSET (Legacy_removedFiles(dsk, discovered) \ {TempDir}) :
                         disk' = dsk \ gone
                    /\ currentSync' = updateStatus(cs, "error")
               ELSE /\ disk' = dsk \ Legacy_removedFiles(dsk, discovered)
                    /\ currentSync' = updateStatus(cs, "completed")
    /\ result' = [result EXCEPT ![r] = currentSync'.status]

\* Stores the outcome of Legacy_outer / Legacy_inner for run r.
Legacy_apply(r, st, dsk) ==
    /\ queue' = [queue EXCEPT ![r] = st.q]
    /\ active' = Legacy_allRuns(st.act)
    /\ IF st.pc = "final"
       THEN Legacy_final(r, st.cs, dsk)
       ELSE /\ pc' = [pc EXCEPT ![r] = st.pc]
            /\ currentSync' = st.cs
            /\ disk' = dsk
            /\ UNCHANGED <<result, cleaned>>

SettingsLegacy ==
    [syncPhotos : BOOLEAN, syncVideos : {TRUE}, deleteRemoved : BOOLEAN,
     concurrentDownloads : {0, 1}]

InitLegacy ==
    /\ currentSync \in Legacy_loadSyncStatus
    /\ syncInProgress = FALSE
    /\ settings \in SettingsLegacy
    /\ \E n \in 0..NumItems : discovered = SubSeq(AllItems, 1, n)
    /\ disk \in SUBSET InitialFiles
    /\ NoRuns
    /\ NoLedger
    /\ NoPhotoQueue
    /\ NoDiscovery
    /\ NoLimiter
    /\ NoCacheLoad
    /\ NoSubscribers
    /\ NoStore
    /\ NoClient
    /\ NoFiles

\* POST /sync up to its await of authenticate().
Legacy_PostSync(r) ==
    /\ FreeRun(r)
    /\ currentSync.status \notin {"running", "paused"}
    /\ pc' = [pc EXCEPT ![r] = "auth"]
    /\ UNCHANGED <<currentSync, syncInProgress, disk, queue, active, awaiting,
                   processed, xfers>>
    /\ UNCHANGED <<envVars, photoVars, discVars, limVars, cacheVars, wsVars, storeVars, clientVars, fileVars, ledgerVars, histVars>>

\* syncPhotos from the return of getDiscoveredItems to its next await: the
\* run installs its currentSync record.
Legacy_syncPhotos(r) ==
    /\ pc[r] = "auth"
    /\ pauseHist' = "none"
    /\ active' = Legacy_allRuns({})
    /\ IF Len(discovered) = 0
       THEN /\ pc' = [pc EXCEPT ![r] = "done"]
            /\ currentSync' = Legacy_freshSync("completed", 0)
            /\ result' = [result EXCEPT ![r] = "completed"]
       ELSE /\ pc' = [pc EXCEPT ![r] = "prepare"]
            /\ currentSync' = Legacy_freshSync("running", Len(discovered))
            /\ UNCHANGED result
    /\ UNCHANGED <<syncInProgress, disk, queue, awaiting, processed, xfers>>
    /\ UNCHANGED <<envVars, photoVars, discVars, limVars, cacheVars, wsVars, storeVars, clientVars, fileVars, ledgerVars, signalled, cleaned>>

\* syncPhotos from the built queue to its next await.
Legacy_prepared(r) ==
    /\ pc[r] = "prepare"
    /\ LET st == Legacy_outer([i \in 1..Len(discovered) |-> i], currentSync,
                              Legacy_activeSet, disk)
       IN  /\ Legacy_apply(r, st, disk)
           /\ xfers' = xfers \cup Started(r, st.started)
    /\ UNCHANGED <<syncInProgress, awaiting, processed>>
    /\ UNCHANGED <<envVars, photoVars, discVars, limVars, cacheVars, wsVars, storeVars, clientVars, fileVars, ledgerVars, signalled, pauseHist>>

\* A sleep of the outer while ends (1000 ms when paused, 100 ms after the
\* inner while).
Legacy_wake(r) ==
    /\ pc[r] \in {"sleep", "tick"}
    /\ LET st == Legacy_outer(queue[r], currentSync, Legacy_activeSet, disk)
       IN  /\ Legacy_apply(r, st, disk)
           /\ xfers' = xfers \cup Started(r, st.started)
    /\ UNCHANGED <<syncInProgress, awaiting, processed>>
    /\ UNCHANGED <<envVars, photoVars, discVars, limVars, cacheVars, wsVars, storeVars, clientVars, fileVars, ledgerVars, signalled, pauseHist>>

\* The outcomes of downloadPhoto: the file is written, the request fails, or
\* the data handler meets a set pause or cancel flag and abandons the file.
DownloadOutcomes == {"ok", "fail", "abort"}

\* The download a run awaits settles and syncPhotos continues its inner while.
Legacy_settle(x, how) ==
    /\ x \in xfers
    /\ pc[x.run] = "xfer"
    /\ how = "abort" => currentSync.isPaused \/ currentSync.isCancelled
    /\ LET r == x.run
           item == discovered[x.pos]
           dsk == IF how = "ok" THEN disk \cup {Legacy_downloadName(item), TempDir}
                  ELSE IF how = "abort" THEN disk \cup {TempDir}
                  ELSE disk
           cs == IF how = "ok"
                 THEN [currentSync EXCEPT !.processedItems = @ + 1]
                 ELSE currentSync
           st == Legacy_inner(queue[r], cs, Legacy_activeSet \ {item.id}, dsk)
       IN  /\ Legacy_apply(r, st, dsk)
           /\ xfers' = (xfers \ {x}) \cup Started(r, st.started)
    /\ UNCHANGED <<syncInProgress, awaiting, processed>>
    /\ UNCHANGED <<envVars, photoVars, discVars, limVars, cacheVars, wsVars, storeVars, clientVars, fileVars, ledgerVars, signalled, pauseHist>>

\* app.post('/sync/pause')
Legacy_PostPause ==
    /\ IF currentSync.status = "running"
       THEN /\ currentSync' = Route_pause(currentSync)
            /\ pauseHist' = IF LiveRuns # {} THEN "paused" ELSE pauseHist
       ELSE UNCHANGED <<currentSync, pauseHist>>
    /\ UNCHANGED <<syncInProgress, disk, envVars, photoVars, discVars, limVars, cacheVars, wsVars, storeVars, clientVars, fileVars, ledgerVars>>
    /\ UNCHANGED runVars
    /\ UNCHANGED <<signalled, result, cleaned>>

\* app.post('/sync/resume')
Legacy_PostResume ==
    /\ IF currentSync.status = "paused"
       THEN /\ currentSync' = Route_resume(currentSync)
            /\ NoteResume
       ELSE UNCHANGED <<currentSync, pauseHist>>
    /\ UNCHANGED <<syncInProgress, disk, envVars, photoVars, discVars, limVars, cacheVars, wsVars, storeVars, clientVars, fileVars, ledgerVars>>
    /\ UNCHANGED runVars
    /\ UNCHANGED <<signalled, result, cleaned>>

\* app.post('/sync/cancel')
Legacy_PostCancel ==
    /\ IF currentSync.status \in {"running", "paused"}
       THEN /\ currentSync' = Route_cancel(currentSync)
            /\ NoteCancel
       ELSE UNCHANGED <<currentSync, signalled>>
    /\ UNCHANGED <<syncInProgress, disk, envVars, photoVars, discVars, limVars, cacheVars, wsVars, storeVars, clientVars, fileVars, ledgerVars>>
    /\ UNCHANGED runVars
    /\ UNCHANGED <<pauseHist, result, cleaned>>

NextLegacy ==
    \/ \E r \in Runs : Legacy_PostSync(r)
    \/ \E r \in Runs : Legacy_syncPhotos(r)
    \/ \E r \in Runs : Legacy_prepared(r)
    \/ \E r \in Runs : Legacy_wake(r)
    \/ \E x \in xfers, how \in DownloadOutcomes : Legacy_settle(x, how)
    \/ Legacy_PostPause
    \/ Legacy_PostResume
    \/ Legacy_PostCancel

SpecLegacy == InitLegacy /\ [][NextLegacy]_vars

(***************************************************************************)
(* Properties of pause, resume and cancel (SpecLegacy).                    *)
(***************************************************************************)
\* Exactly one run has been started and it has returned.
Legacy_singleRunEnded ==
    \E r \in Runs : pc[r] = "done" /\ \A o \in Runs \ {r} : pc[o] = "idle"

\* C5: a run that is paused and later resumed goes on and ends with status
\* 'completed': once the only run, paused while it executed and resumed since,
\* has returned without a cancellation and without an error, the status is
\* 'completed'.
C5_ResumedRunCompletes ==
    (/\ Legacy_singleRunEnded
     /\ pauseHist = "resumed"
     /\ ~currentSync.isCancelled
     /\ currentSync.status # "error")
        => currentSync.status = "completed"

\* C37: whenever the published run status is 'running' or 'paused' a sync run
\* is executing; a status restored from the status file after a restart does
\* not report an active run, which rejects start requests, while nothing runs.
C37_ActiveStatusHasRun ==
    currentSync.status \in {"running", "paused"} =>
        \E r \in Runs : pc[r] \notin {"idle", "done"}

\* No run executes and no start request is under way.
NoRunActive == \A r \in Runs : pc[r] \in {"idle", "done"}

\* C9: a pause, resume or cancel request made when no run is active is
\* rejected and leaves the run state (status, isPaused, isCancelled, counters)
\* unchanged.
C9_ControlRejectedWhenNoRun ==
    [][NoRunActive /\ (Legacy_PostPause \/ Legacy_PostResume \/ Legacy_PostCancel)
          => currentSync' = currentSync]_vars

(***************************************************************************)
(* PhotosService.processDownloadQueue of src/unnamed/part_003: the queue   *)
(* is processed in batches; every item of a batch gets its own callback,   *)
(* which counts itself in activeDownloads around processItem.              *)
(***************************************************************************)
syncVars == <<syncInProgress, runVars, ledgerVars, histVars>>

\* sortItemsBySettings: Array.prototype.sort by creation time, stable.
Queue_before(i, j, order) ==
    IF order = "newest"
    THEN discovered[i].creationTime > discovered[j].creationTime
    ELSE discovered[i].creationTime < discovered[j].creationTime

RECURSIVE Queue_insert(_, _, _)
Queue_insert(sorted, i, order) ==
    IF sorted = <<>> THEN <<i>>
    ELSE IF Queue_before(i, Head(sorted), order) THEN <<i>> \o sorted
    ELSE <<Head(sorted)>> \o Queue_insert(Tail(sorted), i, order)

RECURSIVE sortItemsBySettings(_, _)
sortItemsBySettings(items, order) ==
    IF items = <<>> THEN <<>>
    ELSE Queue_insert(sortItemsBySettings(SubSeq(items, 1, Len(items) - 1), order),
                      items[Len(items)], order)

\* batch.map(async item => ...): each callback runs up to its first await, in
\* order: it sleeps 100 ms when the counter has reached the limit, else it
\* counts itself and calls processItem, which awaits mkdir.
RECURSIVE Queue_map(_, _, _, _)
Queue_map(batch, n, tk, lim) ==
    IF batch = <<>> THEN [n |-> n, task |-> tk]
    ELSE IF n >= lim
    THEN Queue_map(Tail(batch), n, [tk EXCEPT ![Head(batch)] = "sleeping"], lim)
    ELSE Queue_map(Tail(batch), n + 1, [tk EXCEPT ![Head(batch)] = "checking"], lim)

\* retryFailedDownloads from the top of its loop to the next await.
Queue_retry(list, n, cancelled) ==
    IF list = <<>> \/ cancelled
    THEN [qpc |-> "saving", dq |-> downloadQueue, n |-> n, task |-> NoTasks,
          retry |-> <<>>, status |-> FALSE]
    ELSE [qpc |-> "retry", dq |-> downloadQueue, n |-> n,
          task |-> [NoTasks EXCEPT ![Head(list)] = "checking"],
          retry |-> Tail(list), status |-> FALSE]

\* The while loop of processDownloadQueue from its condition to the next
\* await: the next batch, or the end of the loop (cleanupEmptyDirs).
Queue_while(dq, n, cancelled, published) ==
    IF dq # <<>> /\ ~cancelled
    THEN LET m == Queue_map(SubSeq(dq, 1, Min(settings.batchSize, Len(dq))), n,
                            NoTasks, settings.maxConcurrentDownloads)
         IN  [qpc |-> "batch", dq |-> dq, n |-> m.n, task |-> m.task,
              retry |-> <<>>, status |-> published]
    ELSE [qpc |-> "organize", dq |-> dq, n |-> n, task |-> NoTasks,
          retry |-> <<>>, status |-> published]

\* Promise.all of a batch has resolved: splice(0, batchSize), updateSyncStatus
\* and the loop again.
Queue_batchEnd(dq, n, cancelled, tk) ==
    LET batchSize == Cardinality({p \in Positions : tk[p] # "none"})
    IN  Queue_while(SubSeq(dq, batchSize + 1, Len(dq)), n, cancelled, TRUE)

\* What processDownloadQueue does when the callback of item p has ended
\* (tk, n: tasks and counter after it); rejected: processItem threw.
Queue_after(n, tk, rejected) ==
    LET stay == [qpc |-> qpc, dq |-> downloadQueue, n |-> n, task |-> tk,
                 retry |-> retryItems, status |-> FALSE]
    IN  IF qpc \notin {"batch", "retry"} THEN stay
        ELSE IF rejected THEN [stay EXCEPT !.qpc = "failed"]
        ELSE IF qpc = "retry" THEN Queue_retry(retryItems, n, photosIsCancelled)
        ELSE IF \A p \in Positions : tk[p] \in {"none", "done"}
        THEN Queue_batchEnd(downloadQueue, n, photosIsCancelled, tk)
        ELSE stay

\* PhotosService.updateSyncStatus(): discoveryResults is an object, so
\* discoveryResults.length is undefined and the counters it publishes are NaN
\* and undefined.
Queue_updateSyncStatus(cs) ==
    [cs EXCEPT !.processedItems = "NaN", !.totalItems = "undefined"]

Queue_apply(st) ==
    /\ qpc' = st.qpc
    /\ downloadQueue' = st.dq
    /\ activeDownloads' = st.n
    /\ task' = st.task
    /\ retryItems' = st.retry
    /\ currentSync' = IF st.status THEN Queue_updateSyncStatus(currentSync)
                      ELSE currentSync

\* The counter after the finally of a batch callback; the retry pass does not
\* count its items.
Queue_released(n) == IF qpc = "retry" THEN n ELSE n - 1

SettingsQueue ==
    [batchSize : 1..NumItems, maxConcurrentDownloads : 1..MaxSetting,
     syncOrder : {"newest", "oldest"}]

InitQueue ==
    /\ currentSync = IdleSync
    /\ syncInProgress = FALSE
    /\ settings \in SettingsQueue
    /\ \E n \in 0..NumItems :
          /\ discovered = SubSeq(AllItems, 1, n)
          /\ downloadQueue = [i \in 1..n |-> i]
    /\ disk \in SUBSET {StrayFile, generateFileName(Item(1))}
    /\ NoRuns
    /\ NoLedger
    /\ activeDownloads = 0
    /\ photosIsCancelled = FALSE
    /\ syncState = [p \in Positions |-> "none"]
    /\ task = NoTasks
    /\ retryItems = <<>>
    /\ qpc = "idle"
    /\ NoDiscovery
    /\ NoLimiter
    /\ NoCacheLoad
    /\ NoSubscribers
    /\ NoStore
    /\ NoClient
    /\ NoFiles

\* processDownloadQueue up to its first await (mkdir, loadSyncState).
processDownloadQueue ==
    /\ qpc = "idle"
    /\ qpc' = "setup"
    /\ UNCHANGED <<currentSync, disk, envVars, discVars, limVars, cacheVars, wsVars, storeVars, clientVars, fileVars, syncVars>>
    /\ UNCHANGED <<downloadQueue, activeDownloads, photosIsCancelled, syncState,
                   task, retryItems>>

\* loadSyncState has read the state file; the queue is sorted and the first
\* batch is started.
Queue_setupDone ==
    /\ qpc = "setup"
    /\ Queue_apply(Queue_while(sortItemsBySettings(downloadQueue, settings.syncOrder),
                               activeDownloads, photosIsCancelled, FALSE))
    /\ syncState' = Queue_loaded(storeFile)
    /\ UNCHANGED <<disk, envVars, discVars, limVars, cacheVars, wsVars, storeVars, clientVars, fileVars, syncVars, photosIsCancelled>>

\* The 100 ms sleep of a callback ends: it counts itself, whatever the counter
\* says now, and calls processItem, which returns at once when cancelled.
Queue_wake(p) ==
    /\ task[p] = "sleeping"
    /\ IF photosIsCancelled
       THEN Queue_apply(Queue_after(activeDownloads, [task EXCEPT ![p] = "done"], FALSE))
       ELSE /\ activeDownloads' = activeDownloads + 1
            /\ task' = [task EXCEPT ![p] = "checking"]
            /\ UNCHANGED <<qpc, downloadQueue, retryItems, currentSync>>
    /\ UNCHANGED <<disk, envVars, discVars, limVars, cacheVars, wsVars, storeVars, clientVars, fileVars, syncVars, photosIsCancelled, syncState>>

\* downloadPhoto finds the item's file in place (findDuplicateFile, stat).
Queue_inPlace(p, dsk) == generateFileName(discovered[p]) \in dsk

\* processItem after its mkdir: downloadPhoto returns for a file in place,
\* else it sends the download request.
Queue_checked(p) ==
    /\ task[p] = "checking"
    /\ IF Queue_inPlace(p, disk)
       THEN /\ syncState' = [syncState EXCEPT ![p] = "synced"]
            /\ Queue_apply(Queue_after(Queue_released(activeDownloads),
                                       [task EXCEPT ![p] = "done"], FALSE))
            /\ UNCHANGED <<tries, attempts>>
       ELSE /\ task' = [task EXCEPT ![p] = "xfer"]
            /\ tries' = [tries EXCEPT ![p] = 0]
            /\ attempts' = [attempts EXCEPT ![p] = @ + 1]
            /\ syncState' = Queue_missing(syncState, p)
            /\ UNCHANGED <<qpc, downloadQueue, activeDownloads, retryItems,
                           currentSync>>
    /\ UNCHANGED <<disk, envVars, discVars, limVars, cacheVars, wsVars, storeVars, clientVars, syncVars, photosIsCancelled,
                   emptyFiles, partialFiles, denied>>

\* The number of attempts downloadPhoto makes: options.retryAttempts.
RetryAttempts == 2

\* The outcomes of one attempt of downloadPhoto's request loop: the writer
\* finishes with the whole body; it finishes with a body of no bytes; the
\* request is rejected with an error shouldRetry refuses (a 404); it is
\* rejected with one shouldRetry accepts (a 5xx, ECONNRESET); the writer
\* fails after it has created the file (ENOSPC, EIO).
\* "auth" is a response of status 401 or 403, "fail" any other error that
\* shouldRetry refuses, "retryable" one that it accepts.
QueueOutcomes == {"ok", "empty", "fail", "auth", "retryable", "writeError"}

Queue_finished(how) == how \in {"ok", "empty"}

\* The sync directory after an attempt: createWriteStream(targetPath) makes
\* or truncates the file, and nothing removes it.
Queue_written(name, how) ==
    [disk |-> IF how \in {"ok", "empty", "writeError"} THEN disk \cup {name} ELSE disk,
     emptyFiles |-> CASE how = "empty" -> emptyFiles \cup {name}
                      [] how \in {"ok", "writeError"} -> emptyFiles \ {name}
                      [] OTHER -> emptyFiles,
     partialFiles |-> CASE how = "writeError" -> partialFiles \cup {name}
                        [] how \in {"ok", "empty"} -> partialFiles \ {name}
                        [] OTHER -> partialFiles]

\* Whether the catch of the request loop gives up: attempts === retryAttempts.
Queue_exhausted(n) == n = RetryAttempts

\* One attempt of downloadPhoto ends.  A finished writer records the item as
\* synced.  A failure counts the attempt; after the last one the item is
\* recorded as failed and the error is thrown to processItem, which throws in
\* its turn on the missing addToRetryQueue when shouldRetry accepts the
\* error; before the last one downloadPhoto sleeps for retryDelay.
Queue_settle(p, how) ==
    LET w == Queue_written(generateFileName(discovered[p]), how)
    IN  /\ task[p] = "xfer"
        /\ disk' = w.disk
        /\ emptyFiles' = w.emptyFiles
        /\ partialFiles' = w.partialFiles
        /\ IF Queue_finished(how)
           THEN /\ syncState' = [syncState EXCEPT ![p] = "synced"]
                /\ tries' = tries
                /\ Queue_apply(Queue_after(Queue_released(activeDownloads),
                                           [task EXCEPT ![p] = "done"], FALSE))
           ELSE /\ tries' = [tries EXCEPT ![p] = @ + 1]
                /\ IF Queue_exhausted(tries[p] + 1)
                   THEN /\ syncState' = [syncState EXCEPT ![p] = "failed"]
                        /\ Queue_apply(Queue_after(Queue_released(activeDownloads),
                                                   [task EXCEPT ![p] = "done"],
                                                   how = "retryable"))
                   ELSE /\ task' = [task EXCEPT ![p] = "waiting"]
                        /\ UNCHANGED <<qpc, downloadQueue, activeDownloads, retryItems,
                                       currentSync, syncState>>
        /\ denied' = IF how = "auth" THEN denied \cup {p} ELSE denied
        /\ UNCHANGED <<envVars, discVars, limVars, cacheVars, wsVars, storeVars, clientVars, syncVars, photosIsCancelled, attempts>>

\* The retryDelay sleep of downloadPhoto ends: the while loop sends the next
\* request.
Queue_delayed(p) ==
    /\ task[p] = "waiting"
    /\ task' = [task EXCEPT ![p] = "xfer"]
    /\ attempts' = [attempts EXCEPT ![p] = @ + 1]
    /\ UNCHANGED <<currentSync, disk, envVars, discVars, limVars, cacheVars, wsVars, storeVars, clientVars, syncVars>>
    /\ UNCHANGED <<downloadQueue, activeDownloads, photosIsCancelled, syncState,
                   retryItems, qpc, emptyFiles, partialFiles, tries, denied>>

\* cleanupEmptyDirs returned: retryFailedDownloads lists the failed items.
Queue_organized ==
    /\ qpc = "organize"
    /\ Queue_apply(Queue_retry(SelectSeq([i \in 1..Len(discovered) |-> i],
                                         LAMBDA i : syncState[i] = "failed"),
                               activeDownloads, photosIsCancelled))
    /\ UNCHANGED <<disk, envVars, discVars, limVars, cacheVars, wsVars, storeVars, clientVars, fileVars, syncVars, photosIsCancelled, syncState>>

\* The final saveSyncState returned.
Queue_saved ==
    /\ qpc = "saving"
    /\ qpc' = "done"
    /\ UNCHANGED <<currentSync, disk, envVars, discVars, limVars, cacheVars, wsVars, storeVars, clientVars, fileVars, syncVars>>
    /\ UNCHANGED <<downloadQueue, activeDownloads, photosIsCancelled, syncState,
                   task, retryItems>>

\* clearDownloadQueue(), called by cancelSync and by cleanup().
clearDownloadQueue ==
    /\ qpc # "idle"
    /\ downloadQueue' = <<>>
    /\ activeDownloads' = 0
    /\ photosIsCancelled' = TRUE
    /\ UNCHANGED <<currentSync, disk, envVars, discVars, limVars, cacheVars, wsVars, storeVars, clientVars, fileVars, syncVars>>
    /\ UNCHANGED <<syncState, task, retryItems, qpc>>

NextQueue ==
    \/ processDownloadQueue
    \/ Queue_setupDone
    \/ \E p \in Positions : Queue_wake(p)
    \/ \E p \in Positions : Queue_checked(p)
    \/ \E p \in Positions, how \in QueueOutcomes : Queue_settle(p, how)
    \/ \E p \in Positions : Queue_delayed(p)
    \/ Queue_organized
    \/ Queue_saved
    \/ clearDownloadQueue

SpecQueue == InitQueue /\ [][NextQueue]_vars

(***************************************************************************)
(* Property of the concurrency limit (SpecQueue).                          *)
(***************************************************************************)
\* The downloads in flight.
Queue_downloading == {p \in Positions : task[p] = "xfer"}

\* C2: the number of simultaneously active downloads never exceeds the
\* configured concurrency limit, not even transiently.
C2_ActiveWithinLimit ==
    Cardinality(Queue_downloading) <= settings.maxConcurrentDownloads

(***************************************************************************)
(* Discovery: the paged listing of the remote library by discoverPhotos    *)
(* of src/index.js, getPhotos of src/unnamed/part_003 and getPhotos of     *)
(* src/server/routes/settings.routes.js.  A page token is the number of    *)
(* the page it asks for; 0 stands for no token (null or undefined).        *)
(***************************************************************************)
MaxCatalogPages == 3     \* pages of the remote library
MaxPageSize == 2         \* items on a page
MaxLimit == 3            \* largest discoveryLimit option
DefaultDiscoveryLimit == 5   \* discoveryLimit || 5
PhotoSizeMB == 5             \* 5 * 1024 * 1024 bytes for a photo
VideoSizeMB == 20            \* 20 * 1024 * 1024 bytes for a video

RECURSIVE SumTo(_, _)
SumTo(sz, k) == IF k = 0 THEN 0 ELSE sz[k] + SumTo(sz, k - 1)

\* The library whose pages have the sizes sz, its items numbered in order.
CatalogOf(sz) ==
    [k \in 1..Len(sz) |-> [j \in 1..sz[k] |-> SumTo(sz, k - 1) + j]]

Catalogs ==
    {<< <<>> >>} \cup
    UNION {{CatalogOf(sz) : sz \in [1..P -> 1..MaxPageSize]} : P \in 1..MaxCatalogPages}

RECURSIVE Concat(_, _)
Concat(pages, k) == IF k = 0 THEN <<>> ELSE Concat(pages, k - 1) \o pages[k]

\* mediaItems.list({pageToken}): the page asked for and the token of the
\* page after it, absent on the last page.
ListPage(token) ==
    LET k == IF token = 0 THEN 1 ELSE token
    IN  [mediaItems |-> catalog[k],
         nextPageToken |-> IF k < Len(catalog) THEN k + 1 ELSE 0]

\* options.discoveryLimit || 5
Disc_maxPages(s) ==
    IF s.discoveryLimit = 0 THEN DefaultDiscoveryLimit ELSE s.discoveryLimit

\* !!nextPageToken
Disc_hasMore(token) == IF token # 0 THEN "true" ELSE "false"

\* The creation timestamp the library reports for item n; 0 stands for an
\* item without mediaMetadata.creationTime.
Disc_creationTime(n) == IF n % 4 = 2 THEN 0 ELSE Item(n).creationTime

\* The items a discovery stores for the sync.
Disc_asItems(nums) ==
    [i \in 1..Len(nums) |-> [Item(nums[i]) EXCEPT !.creationTime = Disc_creationTime(nums[i])]]

Implementations == {"index", "photos", "routes"}

\* A date setting is the timestamp of the date string; 0 stands for the
\* empty string of the default settings.
SettingsDisc ==
    [discoveryLimit : 0..MaxLimit, useDateRange : {FALSE}, startDate : {0}, endDate : {0}]

InitDisc ==
    /\ currentSync = IdleSync
    /\ syncInProgress = FALSE
    /\ settings \in SettingsDisc
    /\ discovered = <<>>
    /\ disk = {}
    /\ NoRuns
    /\ NoLedger
    /\ NoPhotoQueue
    /\ catalog \in Catalogs
    /\ disc = NoCall
    /\ lastDiscoveryResults = NoSnapshot
    /\ discCalls = 0
    /\ NoRequests
    /\ NoLimiter
    /\ NoCacheLoad
    /\ NoSubscribers
    /\ NoStore
    /\ NoClient
    /\ NoFiles

DiscFrame ==
    UNCHANGED <<currentSync, disk, settings, catalog, syncVars, photoVars, limVars, cacheVars, wsVars, storeVars, clientVars,
                fileVars, requests>>

\* Whether the date post-pass runs: discoverPhotos and getPhotos of
\* settings.routes.js ask for the switch and both dates, getPhotos of index.js
\* for the switch alone, getPhotos of part_003 has no date post-pass.
Disc_dateFilterOn(impl, s) ==
    CASE impl \in {"index", "routes"} -> s.useDateRange /\ s.startDate # 0 /\ s.endDate # 0
      [] impl = "getPhotos" -> s.useDateRange /\ ~currentSync.isCancelled
      [] OTHER -> FALSE

\* itemDate >= startDate && itemDate <= endDate over Date objects: new Date('')
\* is an Invalid Date and every comparison with it is false.
Disc_inRange(t, s) ==
    /\ s.startDate # 0 /\ s.endDate # 0
    /\ t >= s.startDate /\ t <= s.endDate

Disc_keeps(n, s) == Disc_creationTime(n) # 0 /\ Disc_inRange(Disc_creationTime(n), s)

\* filteredItems
Disc_filter(impl, s, got) ==
    IF Disc_dateFilterOn(impl, s) THEN SelectSeq(got, LAMBDA n : Disc_keeps(n, s)) ELSE got

\* photoCount, videoCount and totalSizeEstimate of the pages a call has read:
\* 5 MB for a photo, 20 MB for a video (counted in MB).
Disc_photoCount(got) == Cardinality({i \in 1..Len(got) : ~IsVideoNo(got[i])})
Disc_videoCount(got) == Cardinality({i \in 1..Len(got) : IsVideoNo(got[i])})
Disc_sizeEstimate(got) == PhotoSizeMB * Disc_photoCount(got) + VideoSizeMB * Disc_videoCount(got)

\* The results object of a fresh discovery.
Disc_fresh(got, filtered, token, pages) ==
    [present |-> TRUE, items |-> filtered, totalItems |-> Len(got),
     photoCount |-> Disc_photoCount(got), videoCount |-> Disc_videoCount(got),
     estimatedSizeBytes |-> Disc_sizeEstimate(got), pagesScanned |-> pages,
     hasMore |-> Disc_hasMore(token)]

\* Variant of the merge that lets the new call replace the existing results.
Disc_mergedReplacing(prior, got, filtered, token, pages) ==
    Disc_fresh(got, filtered, token, pages)

\* The results object merged with the existing one.
Disc_merged(prior, got, filtered, token, pages) ==
    [present |-> TRUE, items |-> prior.items \o filtered,
     totalItems |-> prior.totalItems + Len(got),
     photoCount |-> prior.photoCount + Disc_photoCount(got),
     videoCount |-> prior.videoCount + Disc_videoCount(got),
     estimatedSizeBytes |-> prior.estimatedSizeBytes + Disc_sizeEstimate(got),
     pagesScanned |-> prior.pagesScanned + pages,
     hasMore |-> Disc_hasMore(token)]

\* What a call leaves in the stored results.  getPhotos of part_003 always
\* replaces them, without hasMore, its size estimate reads the dimensions of
\* the items (none here); getPhotos of index.js stores nothing;
\* settings.routes.js keeps null when asked to continue from nothing.
Disc_store(impl, cont, prior, got, filtered, token, pages) ==
    CASE impl = "photos" ->
            [Disc_fresh(got, got, token, pages) EXCEPT !.hasMore = "undefined",
                                                       !.estimatedSizeBytes = 0]
      [] impl = "getPhotos" -> prior
      [] impl \in {"index", "routes"} /\ ~cont -> Disc_fresh(got, filtered, token, pages)
      [] impl \in {"index", "routes"} /\ cont /\ prior.present ->
            Disc_merged(prior, got, filtered, token, pages)
      [] impl = "index" /\ cont /\ ~prior.present -> Disc_fresh(got, filtered, token, pages)
      [] impl = "routes" /\ cont /\ ~prior.present -> prior

\* What each implementation returns when it leaves its loop with the items
\* read so far and the last token received: discoverPhotos returns hasMore and
\* nextPageToken; getPhotos of part_003 returns the items alone, its results
\* carry neither hasMore nor a token; getPhotos of settings.routes.js returns
\* the filtered items with a nextPageToken property and stores hasMore;
\* getPhotos of index.js returns the filtered items.
Disc_return(impl, got, token) ==
    [impl |-> impl, pc |-> "returned", continueDiscovery |-> disc.continueDiscovery,
     mediaItems |-> got, pageCount |-> disc.pageCount,
     items |-> Disc_filter(impl, settings, got),
     nextPageToken |-> IF impl \in {"photos", "getPhotos"} THEN 0 ELSE token,
     hasMore |-> IF impl \in {"photos", "getPhotos"} THEN "undefined"
                 ELSE Disc_hasMore(token)]

\* Leaving the loop: the date post-pass, the stored results, the return.
Disc_finish(impl, cont, got, token, pages) ==
    /\ disc' = [Disc_return(impl, got, token) EXCEPT !.continueDiscovery = cont,
                                                     !.pageCount = pages]
    /\ lastDiscoveryResults' =
           Disc_store(impl, cont, lastDiscoveryResults, got,
                      Disc_filter(impl, settings, got), token, pages)
    /\ discovered' = IF impl = "getPhotos" THEN discovered
                     ELSE Disc_asItems(lastDiscoveryResults'.items)

\* Whether the loop goes on after a page: the page limit ends it (getPhotos
\* of index.js has none), else the token decides; settings.routes.js and
\* getPhotos of index.js also stop when cancelled.
Disc_goesOn(impl, token) ==
    /\ impl # "getPhotos" => disc.pageCount < Disc_maxPages(settings)
    /\ token # 0
    /\ impl = "routes" => ~photosIsCancelled
    /\ impl = "getPhotos" => ~currentSync.isCancelled

\* A discovery call up to its first page request, with the continueDiscovery
\* and pageToken options of the request.  getPhotos of part_003 and of
\* settings.routes.js leave the loop at once when the service is cancelled.
Disc_call(impl, cont, token) ==
    /\ disc.pc \in {"idle", "returned"}
    /\ discCalls' = discCalls + 1
    /\ IF impl \in {"photos", "routes"} /\ photosIsCancelled
       THEN Disc_finish(impl, cont, <<>>, token, 0)
       ELSE /\ disc' = [NoCall EXCEPT !.impl = impl, !.pc = "fetch", !.pageCount = 1,
                                      !.continueDiscovery = cont, !.nextPageToken = token]
            /\ UNCHANGED <<lastDiscoveryResults, discovered>>
    /\ DiscFrame

\* A fresh discovery, no page token given.
Disc_begin(impl) ==
    /\ disc.pc = "idle"
    /\ Disc_call(impl, FALSE, 0)

\* A page arrives: the loop body after the request, up to the next request
\* or the return.
Disc_page ==
    /\ disc.pc = "fetch"
    /\ LET resp == ListPage(disc.nextPageToken)
           got == disc.mediaItems \o resp.mediaItems
           token == resp.nextPageToken
       IN  IF Disc_goesOn(disc.impl, token) /\ ~(disc.impl = "photos" /\ photosIsCancelled)
           THEN /\ disc' = [disc EXCEPT !.mediaItems = got, !.nextPageToken = token,
                                        !.pageCount = @ + 1]
                /\ UNCHANGED <<discovered, lastDiscoveryResults>>
           ELSE Disc_finish(disc.impl, disc.continueDiscovery, got, token, disc.pageCount)
    /\ UNCHANGED discCalls
    /\ DiscFrame

NextDisc ==
    \/ \E impl \in Implementations : Disc_begin(impl)
    \/ Disc_page

SpecDisc == InitDisc /\ [][NextDisc]_vars

(***************************************************************************)
(* Property of the pagination (SpecDisc).                                  *)
(***************************************************************************)
\* C10: for a catalog of N items on P pages, a discovery call with
\* maxPages >= P returns exactly the N items and does not report more; with
\* maxPages < P it returns exactly the items of the first maxPages pages with
\* hasMore = true and the token of the next unread page.
C10_PaginationCorrect ==
    disc.pc = "returned" =>
        LET P == Len(catalog)
            maxPages == Disc_maxPages(settings)
        IN  IF maxPages >= P
            THEN /\ disc.items = Concat(catalog, P)
                 /\ disc.hasMore # "true"
            ELSE /\ disc.items = Concat(catalog, maxPages)
                 /\ disc.hasMore = "true"
                 /\ disc.nextPageToken = maxPages + 1

(***************************************************************************)
(* Repeated discovery requests: POST /discover with the continueDiscovery  *)
(* and pageToken options and the date range of the settings, served by     *)
(* discoverPhotos of src/index.js or getPhotos of settings.routes.js, and  *)
(* the listing getPhotos of src/index.js that a sync without discovery     *)
(* results falls back to.  A client passes no token or the token the last  *)
(* call returned.                                                          *)
(***************************************************************************)
MaxCalls == 2            \* discovery calls in a behaviour

SnapImplementations == {"index", "routes", "getPhotos"}

StartDates == {0, 1001, 1003}
EndDates == {0, 1003, 1004}

SettingsSnap ==
    [discoveryLimit : 0..MaxLimit, useDateRange : BOOLEAN,
     startDate : StartDates, endDate : EndDates]

InitSnap ==
    /\ currentSync = IdleSync
    /\ syncInProgress = FALSE
    /\ settings \in SettingsSnap
    /\ discovered = <<>>
    /\ disk = {}
    /\ NoRuns
    /\ NoLedger
    /\ NoPhotoQueue
    /\ catalog \in Catalogs
    /\ disc = NoCall
    /\ lastDiscoveryResults = NoSnapshot
    /\ discCalls = 0
    /\ NoRequests
    /\ NoLimiter
    /\ NoCacheLoad
    /\ NoSubscribers
    /\ NoStore
    /\ NoClient
    /\ NoFiles

Snap_discover(impl, cont, token) ==
    /\ discCalls < MaxCalls
    /\ token \in {0, disc.nextPageToken}
    /\ Disc_call(impl, cont, token)

NextSnap ==
    \/ \E impl \in SnapImplementations, cont \in BOOLEAN, token \in 0..MaxCatalogPages :
           Snap_discover(impl, cont, token)
    \/ Disc_page

SpecSnap == InitSnap /\ [][NextSnap]_vars

\* C34: a discovery call issues at most max-pages-per-call page fetches and
\* then returns: the number of page requests of the call never exceeds the
\* page limit of the settings.
C34_PagesWithinLimit == disc.pageCount <= Disc_maxPages(settings)

\* C39: the stored discovery snapshot never contains the same item id twice,
\* for any sequence of fresh and continued discovery calls, a continue request
\* without a page token or with a token already used included.
C39_SnapshotIdsDistinct ==
    \A i, j \in 1..Len(lastDiscoveryResults.items) :
        Item(lastDiscoveryResults.items[i]).id = Item(lastDiscoveryResults.items[j]).id
            => i = j

C12_DateFilter ==
    (disc.pc = "returned" /\ disc.impl \in {"index", "getPhotos"}) =>
        LET s == settings
            both == s.startDate # 0 /\ s.endDate # 0
            inside(n) == /\ Disc_creationTime(n) # 0
                         /\ s.startDate <= Disc_creationTime(n)
                         /\ Disc_creationTime(n) <= s.endDate
        IN  disc.items = IF s.useDateRange /\ both
                         THEN SelectSeq(disc.mediaItems, inside)
                         ELSE disc.mediaItems


(***************************************************************************)
(* The rate limiter: PhotosService.rateLimitedRequest of                   *)
(* src/unnamed/part_003 (the one of settings.routes.js is the same code).  *)
(* Time is counted in ticks; the window of 60000 ms is WindowTicks ticks,  *)
(* RATE_LIMIT requests are RateLimit requests.  A timer fires at its time: *)
(* the clock does not pass a due timer.                                    *)
(***************************************************************************)
RateLimit == 2           \* this.RATE_LIMIT, scaled
WindowTicks == 3         \* 60000 ms
MaxIssued == 5           \* requests issued in a behaviour

\* Variant of the backoff that does not wait.
Lim_retryAfterNone(header) == 0

\* parseInt(error.response.headers['retry-after']) || 60, in ticks: a missing
\* header (-1) parses to NaN, and NaN and 0 give the default of 60 s.
Lim_retryAfter(header) == IF header <= 0 THEN WindowTicks ELSE header

RetryHeaders == {-1, 0, 1}

\* What the provider answers to a request.
Responses ==
    {[status |-> 200, retryAfter |-> -1], [status |-> 500, retryAfter |-> -1]}
        \cup {[status |-> 429, retryAfter |-> h] : h \in RetryHeaders}

Lim_total == SumTo(issued, MaxTime) + issued[0]

\* requestFn() is called: a request goes out.
Lim_issue == issued' = [issued EXCEPT ![now] = @ + 1]

LimFrame ==
    UNCHANGED <<currentSync, disk, envVars, syncVars, photoVars, discVars, fileVars,
                cacheVars, wsVars, storeVars, clientVars>>

\* The window test at the head of rateLimitedRequest.
Lim_rolled(l) ==
    IF now - l.lastRequestTime >= WindowTicks
    THEN [requestsThisMinute |-> 0, lastRequestTime |-> now]
    ELSE l

\* rateLimitedRequest up to its first await: the sleep at the ceiling, or
\* the request.
Lim_enter(c) ==
    /\ call[c].pc \in {"idle", "returned", "thrown"}
    /\ Lim_total < MaxIssued
    /\ LET elapsed == now - limiter.lastRequestTime
           l == Lim_rolled(limiter)
       IN  IF l.requestsThisMinute >= RateLimit
           THEN /\ call' = [call EXCEPT ![c] = [IdleCall EXCEPT !.pc = "sleeping",
                                                   !.wakeAt = now + (WindowTicks - elapsed)]]
                /\ limiter' = l
                /\ UNCHANGED issued
           ELSE /\ call' = [call EXCEPT ![c] = [IdleCall EXCEPT !.pc = "inflight"]]
                /\ limiter' = [l EXCEPT !.requestsThisMinute = @ + 1]
                /\ Lim_issue
    /\ UNCHANGED <<now, limited>>
    /\ LimFrame

\* The sleep at the ceiling is over: the counter is reset, the window starts
\* now, the request goes out.
Lim_wake(c) ==
    /\ call[c].pc = "sleeping"
    /\ now >= call[c].wakeAt
    /\ limiter' = [requestsThisMinute |-> 1, lastRequestTime |-> now]
    /\ call' = [call EXCEPT ![c].pc = "inflight"]
    /\ Lim_issue
    /\ UNCHANGED <<now, limited>>
    /\ LimFrame

\* The answer to the first request: returned, thrown, or on a 429 the sleep
\* of the backoff.
Lim_respond(c, resp) ==
    /\ call[c].pc = "inflight"
    /\ call' = [call EXCEPT ![c] =
           CASE resp.status = 200 -> EndedCall(@, "returned", resp)
             [] resp.status = 429 ->
                    [@ EXCEPT !.pc = "backoff", !.response = resp, !.limitedAt = now,
                              !.wakeAt = now + Lim_retryAfter(resp.retryAfter)]
             [] OTHER -> EndedCall(@, "thrown", resp)]
    /\ limited' = (limited \/ resp.status = 429)
    /\ UNCHANGED <<limiter, now, issued>>
    /\ LimFrame

\* The backoff is over: the counter is reset and the original call is made
\* again.
Lim_retry(c) ==
    /\ call[c].pc = "backoff"
    /\ now >= call[c].wakeAt
    /\ limiter' = [limiter EXCEPT !.requestsThisMinute = 0]
    /\ call' = [call EXCEPT ![c].pc = "retrying", ![c].retries = @ + 1]
    /\ Lim_issue
    /\ UNCHANGED <<now, limited>>
    /\ LimFrame

\* The answer to the retried request: returned, or thrown whatever it is.
Lim_retryRespond(c, resp) ==
    /\ call[c].pc = "retrying"
    /\ call' = [call EXCEPT ![c] =
           IF resp.status = 200 THEN EndedCall(@, "returned", resp)
                                ELSE EndedCall(@, "thrown", resp)]
    /\ limited' = (limited \/ resp.status = 429)
    /\ UNCHANGED <<limiter, now, issued>>
    /\ LimFrame

\* Time passes, up to the next due timer.
Lim_tick ==
    /\ now < MaxTime
    /\ \A c \in Callers : call[c].pc \in {"sleeping", "backoff"} => now < call[c].wakeAt
    /\ now' = now + 1
    /\ UNCHANGED <<limiter, call, issued, limited>>
    /\ LimFrame

InitLimiter ==
    /\ currentSync = IdleSync
    /\ syncInProgress = FALSE
    /\ settings \in SettingsDisc
    /\ discovered = <<>>
    /\ disk = {}
    /\ NoRuns
    /\ NoLedger
    /\ NoPhotoQueue
    /\ NoDiscovery
    /\ NoLimiter
    /\ NoCacheLoad
    /\ NoSubscribers
    /\ NoStore
    /\ NoClient
    /\ NoFiles

NextLimiter ==
    \/ \E c \in Callers : Lim_enter(c)
    \/ \E c \in Callers : Lim_wake(c)
    \/ \E c \in Callers, resp \in Responses : Lim_respond(c, resp)
    \/ \E c \in Callers : Lim_retry(c)
    \/ \E c \in Callers, resp \in Responses : Lim_retryRespond(c, resp)
    \/ Lim_tick

SpecLimiter == InitLimiter /\ [][NextLimiter]_vars

(***************************************************************************)
(* Properties of the rate limiter (SpecLimiter).                           *)
(***************************************************************************)
\* Requests issued from time t on, before time t + WindowTicks.
Lim_issuedIn(t) ==
    SumTo([k \in 1..WindowTicks |-> IF t + k - 1 <= MaxTime THEN issued[t + k - 1] ELSE 0],
          WindowTicks)

\* No caller has met a provider rate-limit response.
Lim_noBackoff == ~limited

\* C13: as long as the provider has sent no rate-limit response, no window of
\* one minute holds more requests issued through the limiter than the
\* ceiling, whatever number of callers wait at the ceiling.
C13_CeilingPerWindow ==
    Lim_noBackoff => \A t \in 0..MaxTime : Lim_issuedIn(t) <= RateLimit

\* C14: a provider rate-limit (429) response is always followed by one retry
\* of the call, issued no earlier than the provider's retry-after duration
\* (the default of 60 s when the header is absent) after the response and with
\* the counter reset to 0; the answer to the retry ends the call: it is
\* returned, or its error is thrown, and no further request goes out.
C14_BackoffRetriesOnce ==
    [][\A c \in Callers :
         LET a == call[c]
             b == call'[c]
             wait == IF a.response.retryAfter = -1 THEN WindowTicks
                     ELSE a.response.retryAfter
         IN  /\ a.pc = "backoff" => b.pc \in {"backoff", "retrying"}
             /\ (b.pc = "retrying" /\ a.pc # "retrying") =>
                   /\ a.pc = "backoff" /\ a.response.status = 429
                   /\ now >= a.limitedAt + wait
                   /\ limiter'.requestsThisMinute = 0
                   /\ b.retries = 1
                   /\ issued'[now] = issued[now] + 1
             /\ (a.pc = "retrying" /\ b.pc # "retrying") =>
                   /\ b.pc \in {"returned", "thrown"}
                   /\ issued' = issued
                   /\ b.pc = "thrown" => b.thrown.status \in {429, 500}
             /\ b.retries <= 1]_vars

\* A call whose retry failed as well has thrown the error of the retry.
C14_Witness ==
    \E c \in Callers :
        call[c].pc = "thrown" /\ call[c].retries = 1 /\ call[c].thrown.status = 429


(***************************************************************************)
(* The sync cache and files removed from outside: the service of           *)
(* src/server/services/sync.service.js with its ledger,                    *)
(* src/server/services/sync.cache.service.js, in a sync directory whose    *)
(* files another program may delete at any time.                           *)
(***************************************************************************)
\* syncCacheService.isItemSynced(itemId): the entry exists.
isItemSynced(cache, i) == i \in cache.cached

\* A file of the sync directory is deleted by something else.
External_remove(f) ==
    /\ f \in disk
    /\ disk' = disk \ {f}
    /\ emptyFiles' = emptyFiles \ {f}
    /\ partialFiles' = partialFiles \ {f}
    /\ UNCHANGED <<currentSync, syncInProgress, runVars, envVars, photoVars, discVars,
                   limVars, cacheVars, wsVars, storeVars, clientVars, ledgerVars, histVars, tries, attempts, denied>>

NextLedger ==
    \/ NextCache
    \/ \E f \in disk : External_remove(f)

SpecLedger == InitCache /\ [][NextLedger]_vars

(***************************************************************************)
(* Property of the ledger's re-verification (SpecLedger).                  *)
(***************************************************************************)
\* C15: once the local file of an item recorded as synced is gone, the synced
\* check of the item returns false.
C15_SyncedCheckSeesMissingFile ==
    \A i \in 1..Len(discovered) :
        (i \in syncCache.cached /\ generateFileName(discovered[i]) \notin disk)
            => ~isItemSynced(syncCache, i)


(***************************************************************************)
(* Properties of the downloads of the PhotosService (SpecQueue).           *)
(***************************************************************************)
Queue_target(p) == generateFileName(discovered[p])

\* C16: an entry is marked synced only when the download stream has completed
\* and the file at the recorded path exists with non-zero size at the time of
\* the write.
C16_SyncedMeansWholeFile ==
    [][\A p \in 1..Len(discovered) :
          (syncState'[p] = "synced" /\ (syncState[p] # "synced" \/ task[p] = "checking")) =>
              /\ Queue_target(p) \in disk'
              /\ Queue_target(p) \notin emptyFiles'
              /\ Queue_target(p) \notin partialFiles']_<<syncState, task, disk, emptyFiles,
                                                          partialFiles>>

\* C17: after a download attempt has failed, no partially written file
\* remains at the item's final path, so that a later pass never takes a
\* partial file for the item.
C17_NoPartialFinal ==
    \A p \in 1..Len(discovered) :
        task[p] # "xfer" => Queue_target(p) \notin partialFiles

\* C18: a per-item download failure never aborts the run: the remaining
\* items are still processed and the run does not end in error.
C18_FailureDoesNotAbort ==
    (\E p \in 1..Len(discovered) : syncState[p] = "failed") => qpc # "failed"

\* C20: within one run each item is attempted at most retryAttempts times.
C20_AttemptsWithinLimit ==
    \A p \in 1..Len(discovered) : attempts[p] <= RetryAttempts

\* C31: a download that fails with an authentication error (401/403) is not
\* retried internally: the attempt that was refused is the item's last one,
\* downloadPhoto does not go on to sleep and send another request.
C31_AuthErrorNotRetried ==
    [][\A p \in Positions :
          (p \notin denied /\ p \in denied') => task'[p] # "waiting"]_<<denied, task>>


(***************************************************************************)
(* Property of the run counters (SpecSvc).                                 *)
(***************************************************************************)
\* C19: when a run ends with status 'completed', processedItems equals
\* totalItems: items of a disabled media type, items already present and
\* items whose download failed all count as processed.
C19_CompletedCountsEveryItem ==
    currentSync.status = "completed" =>
        currentSync.processedItems = currentSync.totalItems


(***************************************************************************)
(* Property of the failure records (SpecCache).                            *)
(***************************************************************************)
\* C21: every per-item download failure of a run is recorded in the ledger
\* for that item, so that it is retrievable after the run: when a transfer
\* ends and has left no file, the ledger holds an entry for its item.
C21_FailureRecorded ==
    [][\A x \in xfers :
          (x \notin xfers' /\ generateFileName(discovered[x.pos]) \notin disk')
              => x.pos \in syncCache'.cached]_vars


(***************************************************************************)
(* Property of the transfers in flight (SpecSvc).                          *)
(***************************************************************************)
\* C22: the same item id is never downloaded by two transfers at the same
\* time.
C22_OneTransferPerItem ==
    \A x, y \in xfers :
        discovered[x.pos].id = discovered[y.pos].id => x = y


\* C32: an item whose media type is disabled by configuration (photos-only or
\* videos-only mode) is never downloaded and causes no ledger write: no step
\* leaves a transfer of it in flight, creates its file or changes the ledger.
C32_DisabledNeverDownloaded ==
    [][\A p \in 1..Len(discovered) :
          ((~settings.syncPhotos /\ ~discovered[p].video)
              \/ (~settings.syncVideos /\ discovered[p].video)) =>
                 /\ \A x \in xfers' : x.pos # p
                 /\ (Svc_downloadName(discovered[p]) \notin disk
                        => Svc_downloadName(discovered[p]) \notin disk')
                 /\ syncCache' = syncCache]_vars

\* A run is downloading an item while another item of the list is of a
\* disabled type.
C32_Witness ==
    /\ \E p \in 1..Len(discovered) :
          (~settings.syncPhotos /\ ~discovered[p].video)
              \/ (~settings.syncVideos /\ discovered[p].video)
    /\ xfers # {}

\* Math.round(100 * processed / total) of two naturals, total > 0.
RoundPercent(n, total) == (200 * n + total) \div (2 * total)

\* The progress getSyncStatus() reports.
getSyncStatus_progress(cs) ==
    IF cs.totalItems > 0 THEN RoundPercent(cs.processedItems, cs.totalItems) ELSE 0

\* C38: in every reachable state 0 <= processedItems <= totalItems, so the
\* progress reported by getSyncStatus lies between 0 and 100.
C38_ProgressInRange ==
    /\ 0 <= currentSync.processedItems
    /\ currentSync.processedItems <= currentSync.totalItems
    /\ getSyncStatus_progress(currentSync) \in 0..100

C35_PausedIffFlag == (currentSync.status = "paused") <=> currentSync.isPaused

\* The steps of the runs themselves, which the event loop takes when they are
\* possible.
Cache_runSteps ==
    \/ \E r \in Runs : Cache_startSync(r)
    \/ \E r \in Runs : Cache_loadDone(r)
    \/ \E r \in Runs : Cache_verifyDone(r)
    \/ \E r \in Runs : Cache_pollTick(r)
    \/ \E x \in xfers, ok \in BOOLEAN : Cache_settle(x, ok)
    \/ \E r \in Runs : Cache_finish(r)

SpecCacheLive == SpecCache /\ WF_vars(Cache_runSteps)

\* C36: a run that is cancelled while it is paused terminates without
\* requiring a resume: it leaves the pause wait and ends.
C36_CancelledWhilePausedEnds ==
    \A r \in Runs :
        (pc[r] = "poll" /\ currentSync.isCancelled) ~> (pc[r] = "done")

(***************************************************************************)
(* Property of the start of a run (SpecCache).                             *)
(***************************************************************************)
\* C24: every new run starts from a reset run state: at the start of
\* startSync the run state has isPaused = false, isCancelled = false and
\* processedItems = 0, however the previous run ended.
C24_RunStartsReset ==
    [][\A r \in Runs :
          (pc[r] = "auth" /\ pc'[r] \notin {"auth", "idle"}) =>
              /\ ~currentSync'.isPaused
              /\ ~currentSync'.isCancelled
              /\ currentSync'.processedItems = 0]_vars


(***************************************************************************)
(* Concurrent discovery requests: POST /discover of src/index.js           *)
(* (discoverPhotos) and of src/unnamed/part_002 (getPhotos of              *)
(* src/unnamed/part_003), each request with the locals of its own call.    *)
(***************************************************************************)
RaceImplementations == {"index", "photos"}

InitRace ==
    /\ currentSync = IdleSync
    /\ syncInProgress = FALSE
    /\ settings \in SettingsDisc
    /\ discovered = <<>>
    /\ disk = {}
    /\ NoRuns
    /\ NoLedger
    /\ NoPhotoQueue
    /\ catalog \in Catalogs
    /\ disc = NoCall
    /\ lastDiscoveryResults = NoSnapshot
    /\ discCalls = 0
    /\ NoRequests
    /\ NoLimiter
    /\ NoCacheLoad
    /\ NoSubscribers
    /\ NoStore
    /\ NoClient
    /\ NoFiles

RaceFrame ==
    UNCHANGED <<currentSync, disk, settings, catalog, syncVars, photoVars, limVars, cacheVars, wsVars, storeVars, clientVars,
                fileVars, disc, discCalls>>

\* The handler of POST /discover up to the first page request of its
\* discovery call.  Neither the handlers nor the discovery functions test
\* whether a discovery is under way: getPhotos sets discoveryInProgress and
\* never reads it.  The route of part_002 resets the service's results first
\* when the request does not continue a discovery.
Race_discover(k, impl, cont) ==
    /\ requests[k].pc = "idle"
    /\ \A o \in Requesters : requests[o].impl \in {"none", impl}
    /\ requests' = [requests EXCEPT ![k] =
                       [NoCall EXCEPT !.impl = impl, !.pc = "fetch", !.pageCount = 1,
                                      !.continueDiscovery = cont]]
    /\ IF impl = "photos" /\ ~cont
       THEN lastDiscoveryResults' = NoSnapshot /\ discovered' = <<>>
       ELSE UNCHANGED <<lastDiscoveryResults, discovered>>
    /\ RaceFrame

\* A page arrives for request k: the loop body of its call up to the next
\* page request, or the stored results and the response.
Race_page(k) ==
    /\ requests[k].pc = "fetch"
    /\ LET c == requests[k]
           resp == ListPage(c.nextPageToken)
           got == c.mediaItems \o resp.mediaItems
           token == resp.nextPageToken
           filtered == Disc_filter(c.impl, settings, got)
       IN  IF c.pageCount < Disc_maxPages(settings) /\ token # 0 /\ ~photosIsCancelled
           THEN /\ requests' = [requests EXCEPT ![k] =
                                   [c EXCEPT !.mediaItems = got, !.nextPageToken = token,
                                             !.pageCount = @ + 1]]
                /\ UNCHANGED <<lastDiscoveryResults, discovered>>
           ELSE /\ requests' = [requests EXCEPT ![k] =
                                   [c EXCEPT !.pc = "returned", !.mediaItems = got,
                                             !.items = filtered,
                                             !.nextPageToken =
                                                 IF c.impl = "photos" THEN 0 ELSE token,
                                             !.hasMore =
                                                 IF c.impl = "photos" THEN "undefined"
                                                 ELSE Disc_hasMore(token)]]
                /\ lastDiscoveryResults' =
                       Disc_store(c.impl, c.continueDiscovery, lastDiscoveryResults,
                                  got, filtered, token, c.pageCount)
                /\ discovered' = Disc_asItems(lastDiscoveryResults'.items)
    /\ RaceFrame

NextRace ==
    \/ \E k \in Requesters, impl \in RaceImplementations, cont \in BOOLEAN :
           Race_discover(k, impl, cont)
    \/ \E k \in Requesters : Race_page(k)

SpecRace == InitRace /\ [][NextRace]_vars

(***************************************************************************)
(* Property of concurrent discoveries (SpecRace).                          *)
(***************************************************************************)
Race_active == {k \in Requesters : requests[k].pc = "fetch"}

\* C25: at most one discovery run is active at a time: a discovery request
\* made while another discovery is in progress fails fast and does not
\* interleave its page fetches or its result merging with the running one.
C25_OneDiscoveryAtATime == Cardinality(Race_active) <= 1


(***************************************************************************)
(* The discovery cache of the PhotosService (src/unnamed/part_003):        *)
(* getPhotos notes the authenticated user and asks loadDiscoveryCache for  *)
(* the user's cache file before it lists the library.  The files are       *)
(* written by other versions of the program; they hold the id of the user  *)
(* they were saved for and the time of the save.                           *)
(***************************************************************************)
MaxTTL == 2              \* largest settings.discoveryCacheTTL, in ticks
MaxStamp == 2            \* latest timestamp of a cache file

SettingsTtl == [enableCaching : BOOLEAN, discoveryCacheTTL : 0..MaxTTL]

CacheFileStates == {NoCacheFile} \cup [userId : Users, timestamp : 0..MaxStamp]

InitTtl ==
    /\ currentSync = IdleSync
    /\ syncInProgress = FALSE
    /\ settings \in SettingsTtl
    /\ discovered = <<>>
    /\ disk = {}
    /\ NoRuns
    /\ NoLedger
    /\ NoPhotoQueue
    /\ NoDiscovery
    /\ NoLimiter
    /\ NoFiles
    /\ cacheFiles \in [Users -> CacheFileStates]
    /\ currentUserId = "none"
    /\ load = NoLoad
    /\ NoSubscribers
    /\ NoStore
    /\ NoClient

TtlFrame ==
    UNCHANGED <<currentSync, disk, envVars, syncVars, photoVars, fileVars, cacheFiles,
                catalog, disc, discCalls, requests, wsVars, storeVars, clientVars>>

\* cacheAge > settings.discoveryCacheTTL
Ttl_expiredNever(age, ttl) == FALSE

Ttl_expired(age, ttl) == age > ttl

\* loadDiscoveryCache returned null: getPhotos goes on to list the library.
Ttl_null(path) == [NoLoad EXCEPT !.pc = "fresh", !.path = path]

\* getPhotos(auth, {forceFreshDiscovery}) for the authenticated user, up to
\* the readFile of loadDiscoveryCache.
Ttl_getPhotos(user, force) ==
    /\ load.pc # "reading"
    /\ currentUserId' = user
    /\ load' = IF force \/ ~settings.enableCaching
               THEN Ttl_null(user)
               ELSE [NoLoad EXCEPT !.pc = "reading", !.path = user]
    /\ UNCHANGED <<lastDiscoveryResults, limVars>>
    /\ TtlFrame

\* A getPhotos call for another authentication starts while the file is
\* being read: it notes its user.
Ttl_otherUser(user) ==
    /\ load.pc = "reading"
    /\ currentUserId' = user
    /\ UNCHANGED <<load, lastDiscoveryResults, limVars>>
    /\ TtlFrame

\* readFile returns: the checks of loadDiscoveryCache, and the cached results
\* become the discovery results when they pass.
Ttl_readDone ==
    /\ load.pc = "reading"
    /\ LET file == cacheFiles[load.path]
           cacheAge == now - file.timestamp
       IN  IF \/ file = NoCacheFile
              \/ file.userId # currentUserId
              \/ Ttl_expired(cacheAge, settings.discoveryCacheTTL)
           THEN /\ load' = Ttl_null(load.path)
                /\ UNCHANGED lastDiscoveryResults
           ELSE /\ load' = [pc |-> "served", path |-> load.path, owner |-> file.userId,
                            user |-> currentUserId, age |-> cacheAge]
                /\ lastDiscoveryResults' = [NoSnapshot EXCEPT !.present = TRUE]
    /\ UNCHANGED <<currentUserId, limVars>>
    /\ TtlFrame

\* Time passes.
Ttl_tick ==
    /\ now < MaxTime
    /\ now' = now + 1
    /\ UNCHANGED <<limiter, call, issued, limited, currentUserId, load,
                   lastDiscoveryResults>>
    /\ TtlFrame

NextTtl ==
    \/ \E user \in Users, force \in BOOLEAN : Ttl_getPhotos(user, force)
    \/ \E user \in Users : Ttl_otherUser(user)
    \/ Ttl_readDone
    \/ Ttl_tick

SpecTtl == InitTtl /\ [][NextTtl]_vars

(***************************************************************************)
(* Property of the discovery cache (SpecTtl).                              *)
(***************************************************************************)
\* C26: a cached discovery snapshot is served only if it was saved for the
\* currently authenticated user and its age is within the configured
\* time-to-live; an expired or other-user snapshot is never returned.
C26_ServedOwnAndFresh ==
    load.pc = "served" =>
        /\ settings.enableCaching
        /\ load.owner = load.user
        /\ load.owner = cacheFiles[load.path].userId
        /\ load.age <= settings.discoveryCacheTTL

\* A snapshot was served at the very end of its time-to-live while the file
\* of the other user holds a snapshot saved for somebody else.
C26_Witness ==
    /\ load.pc = "served"
    /\ load.age = settings.discoveryCacheTTL
    /\ load.age > 0
    /\ \E u \in Users : cacheFiles[u] # NoCacheFile /\ cacheFiles[u].userId # u


(***************************************************************************)
(* The WebSocket services: src/server/services/websocket.service.js        *)
(* ("services") and src/server/websocket/websocket.service.js             *)
(* ("websocket").  A status is identified by the number of updates made    *)
(* to it; a subscriber's inbox is the sequence of messages sent to it.     *)
(***************************************************************************)
MaxUpdates == 2          \* updates of each status in a behaviour

WsImplementations == {"services", "websocket"}

SyncMessage(v) == [type |-> "syncStatus", v |-> v]
DiscoveryMessage(v) == [type |-> "discoveryProgress", v |-> v]

InitWs ==
    /\ currentSync = IdleSync
    /\ syncInProgress = FALSE
    /\ settings \in SettingsDisc
    /\ discovered = <<>>
    /\ disk = {}
    /\ NoRuns
    /\ NoLedger
    /\ NoPhotoQueue
    /\ NoDiscovery
    /\ NoLimiter
    /\ NoFiles
    /\ NoCacheLoad
    /\ wsImpl \in WsImplementations
    /\ wss = FALSE
    /\ subs = [c \in Subscribers |-> NoSubscriber]
    /\ syncVersion = 0
    /\ discVersion = 0
    /\ publishFailed = FALSE
    /\ NoStore
    /\ NoClient

WsFrame ==
    UNCHANGED <<currentSync, disk, envVars, syncVars, photoVars, discVars, limVars,
                fileVars, cacheVars, storeVars, clientVars, wsImpl>>

\* The catch around ws.send: the error is logged, nothing is thrown on.
Ws_catchNone(threw) == threw

Ws_catch(threw) == FALSE

\* sendToClient(ws, data) / the body of the forEach of broadcastToClients:
\* sends to an open socket; gives the subscriber and whether it threw.
Ws_sendToClient(sub, msg) ==
    IF sub.state # "open" THEN [sub |-> sub, threw |-> FALSE]
    ELSE IF sub.throws THEN [sub |-> sub, threw |-> Ws_catch(TRUE)]
    ELSE [sub |-> [sub EXCEPT !.inbox = Append(@, msg)], threw |-> FALSE]

\* wss.clients.forEach(client => sendToClient(client, message)), from client
\* k on; an exception ends the loop.
RECURSIVE Ws_forEach(_, _, _)
Ws_forEach(ss, k, msg) ==
    IF k > MaxSubscribers THEN [subs |-> ss, threw |-> FALSE]
    ELSE LET r == Ws_sendToClient(ss[k], msg)
         IN  IF r.threw THEN [subs |-> [ss EXCEPT ![k] = r.sub], threw |-> TRUE]
             ELSE Ws_forEach([ss EXCEPT ![k] = r.sub], k + 1, msg)

\* A broadcast: nothing without a server.
Ws_broadcast(ss, msg) ==
    IF ~wss THEN [subs |-> ss, threw |-> FALSE] ELSE Ws_forEach(ss, 1, msg)

\* initialize(server)
Ws_initialize ==
    /\ ~wss
    /\ wss' = TRUE
    /\ UNCHANGED <<subs, syncVersion, discVersion, publishFailed>>
    /\ WsFrame

\* handleConnection(ws, req): "services" sends the sync status and the
\* discovery progress at once (sendInitialState); "websocket" builds the sync
\* status message and sets a timer of 500 ms to send it (sendInitialStatus).
Ws_handleConnection(c, throws) ==
    /\ wss
    /\ subs[c].state = "none"
    /\ \A o \in Subscribers : o < c => subs[o].state # "none"
    /\ LET fresh == [NoSubscriber EXCEPT !.state = "open", !.throws = throws,
                                         !.attachedSync = syncVersion,
                                         !.attachedDisc = discVersion]
           first == Ws_sendToClient(fresh, SyncMessage(syncVersion))
           second == Ws_sendToClient(first.sub, DiscoveryMessage(discVersion))
       IN  IF wsImpl = "services"
           THEN /\ subs' = [subs EXCEPT ![c] = IF first.threw THEN first.sub ELSE second.sub]
                /\ publishFailed' = (publishFailed \/ first.threw \/ second.threw)
           ELSE /\ subs' = [subs EXCEPT ![c] = [fresh EXCEPT !.pending = syncVersion]]
                /\ UNCHANGED publishFailed
    /\ UNCHANGED <<wss, syncVersion, discVersion>>
    /\ WsFrame

\* The timer of sendInitialStatus fires.
Ws_initialTimer(c) ==
    /\ subs[c].pending # -1
    /\ LET r == Ws_sendToClient(subs[c], SyncMessage(subs[c].pending))
       IN  subs' = [subs EXCEPT ![c] = [r.sub EXCEPT !.pending = -1]]
    /\ UNCHANGED <<wss, syncVersion, discVersion, publishFailed>>
    /\ WsFrame

\* updateSyncStatus(update): the merge and broadcastSyncStatus.
Ws_updateSyncStatus ==
    /\ syncVersion < MaxUpdates
    /\ syncVersion' = syncVersion + 1
    /\ LET r == Ws_broadcast(subs, SyncMessage(syncVersion + 1))
       IN  /\ subs' = r.subs
           /\ publishFailed' = (publishFailed \/ r.threw)
    /\ UNCHANGED <<wss, discVersion>>
    /\ WsFrame

\* updateDiscoveryProgress(progress) of "services"; "websocket" has no
\* discovery progress.
Ws_updateDiscoveryProgress ==
    /\ wsImpl = "services"
    /\ discVersion < MaxUpdates
    /\ discVersion' = discVersion + 1
    /\ LET r == Ws_broadcast(subs, DiscoveryMessage(discVersion + 1))
       IN  /\ subs' = r.subs
           /\ publishFailed' = (publishFailed \/ r.threw)
    /\ UNCHANGED <<wss, syncVersion>>
    /\ WsFrame

\* The client goes away: readyState is no longer OPEN.
Ws_close(c) ==
    /\ subs[c].state = "open"
    /\ subs' = [subs EXCEPT ![c].state = "closed"]
    /\ UNCHANGED <<wss, syncVersion, discVersion, publishFailed>>
    /\ WsFrame

NextWs ==
    \/ Ws_initialize
    \/ \E c \in Subscribers, throws \in BOOLEAN : Ws_handleConnection(c, throws)
    \/ \E c \in Subscribers : Ws_initialTimer(c)
    \/ Ws_updateSyncStatus
    \/ Ws_updateDiscoveryProgress
    \/ \E c \in Subscribers : Ws_close(c)

SpecWs == InitWs /\ [][NextWs]_vars

(***************************************************************************)
(* Properties of the subscribers (SpecWs).                                 *)
(***************************************************************************)
\* C27: a newly attached subscriber receives the current snapshot of both
\* the sync status and the discovery progress before it receives any later
\* status delta: the first two messages of its inbox are the two snapshots
\* taken when it attached.
C27_SnapshotFirst ==
    \A c \in Subscribers :
        subs[c].inbox # <<>> =>
            /\ Len(subs[c].inbox) >= 2
            /\ subs[c].inbox[1] = SyncMessage(subs[c].attachedSync)
            /\ subs[c].inbox[2] = DiscoveryMessage(subs[c].attachedDisc)

\* The last message of a type in an inbox; -1 when there is none.
RECURSIVE Ws_last(_, _)
Ws_last(inbox, type) ==
    IF inbox = <<>> THEN -1
    ELSE IF inbox[Len(inbox)].type = type THEN inbox[Len(inbox)].v
    ELSE Ws_last(SubSeq(inbox, 1, Len(inbox) - 1), type)

\* C28: publishing a status update never fails because of a subscriber: a
\* closed or throwing subscriber does not prevent delivery to the other open
\* subscribers, and publishing with no subscriber or without a server is a
\* no-op, not an error (src/server/services/websocket.service.js).
C28_PublishNeverFails ==
    wsImpl = "services" =>
        /\ ~publishFailed
        /\ \A c \in Subscribers :
              (subs[c].state = "open" /\ ~subs[c].throws) =>
                  /\ Ws_last(subs[c].inbox, "syncStatus") = syncVersion
                  /\ Ws_last(subs[c].inbox, "discoveryProgress") = discVersion

\* A throwing subscriber precedes an open one, and both statuses have been
\* published since the open one attached.
C28_Witness ==
    /\ wsImpl = "services"
    /\ subs[1].state = "open" /\ subs[1].throws
    /\ subs[2].state = "open" /\ ~subs[2].throws
    /\ syncVersion > subs[2].attachedSync
    /\ discVersion > subs[2].attachedDisc


(***************************************************************************)
(* The persisted ledger: SyncCacheService of                               *)
(* src/server/services/sync.cache.service.js under the server of           *)
(* src/server/index.js ("cache"), and loadSyncState of the PhotosService   *)
(* of src/unnamed/part_003 ("state").                                      *)
(***************************************************************************)
CACHE_VERSION == 1

SaveIntervalTicks == 2   \* SAVE_INTERVAL, in ticks

MaxStoreItems == 2       \* items the running server records in the ledger

StoreItems == 1..MaxStoreItems

StoreImplementations == {"cache", "state"}

\* The ledgers a file found at startup may hold.
StoredLedgers ==
    {EmptyLedger, [cached |-> {1}, verified |-> {}], [cached |-> {1, 2}, verified |-> {1}]}

StoreFiles ==
    {AbsentFile, StoreFile("garbage", 0, FALSE, EmptyLedger)}
        \cup {StoreFile("object", v, TRUE, l) : v \in {CACHE_VERSION, CACHE_VERSION + 1},
                                                 l \in StoredLedgers}
        \cup {StoreFile("object", v, FALSE, EmptyLedger) : v \in {CACHE_VERSION, CACHE_VERSION + 1}}
        \cup {StoreFile("array", 0, TRUE, [cached |-> l.cached, verified |-> {}]) :
                  l \in StoredLedgers}

\* JSON.parse(data) throws.
Store_notJson(file) == file.kind = "garbage"

\* The catch of loadCache rethrowing what it caught.
Load_rethrow(threw, cache) == [threw |-> threw, cache |-> cache]

\* The catch of loadCache: logs, and starts fresh.
Load_catch(threw, cache) == [threw |-> FALSE, cache |-> EmptyLedger]

\* loadCache(), the Map being cache before it.
loadCache(file, cache) ==
    IF file.kind = "absent" THEN [threw |-> FALSE, cache |-> cache]
    ELSE IF Store_notJson(file) THEN Load_catch(TRUE, cache)
    ELSE IF file.kind = "object" /\ file.version = CACHE_VERSION
         THEN IF file.hasItems THEN [threw |-> FALSE, cache |-> file.items]
              ELSE Load_catch(TRUE, cache)
    ELSE [threw |-> FALSE, cache |-> cache]

\* saveCache(): the whole Map is written when it is dirty; a failed write is
\* logged.  Gives the file, isDirty and the time since lastSave.
saveCache(file, cache, dirty, since, ok) ==
    IF ~dirty \/ ~ok THEN [file |-> file, dirty |-> dirty, since |-> since]
    ELSE [file |-> StoreFile("object", CACHE_VERSION, TRUE, cache),
          dirty |-> FALSE, since |-> 0]

InitStore ==
    /\ currentSync = IdleSync
    /\ syncInProgress = FALSE
    /\ settings = [syncDir |-> "photos"]
    /\ discovered = <<>>
    /\ disk = {}
    /\ NoRuns
    /\ NoLedger
    /\ downloadQueue = <<>>
    /\ activeDownloads = 0
    /\ photosIsCancelled = FALSE
    /\ task = NoTasks
    /\ retryItems = <<>>
    /\ qpc = "idle"
    /\ NoDiscovery
    /\ NoLimiter
    /\ NoFiles
    /\ NoCacheLoad
    /\ NoSubscribers
    /\ storeImpl \in StoreImplementations
    /\ storeFile \in StoreFiles
    /\ syncState \in {[p \in Positions |-> "none"]} \cup
                     {[p \in Positions |-> IF p = NumItems THEN "synced" ELSE "none"] :
                          x \in {storeImpl} \cap {"state"}}
    /\ isDirty = FALSE
    /\ sinceSave = 0
    /\ boot = NoBoot
    /\ NoClient

StoreFrame ==
    UNCHANGED <<currentSync, disk, envVars, syncInProgress, runVars,
                verificationInProgress, histVars, downloadQueue, activeDownloads,
                photosIsCancelled, task, retryItems, qpc, discVars, limVars,
                fileVars, cacheVars, wsVars, clientVars, storeImpl>>

\* The server starts: the constructor's empty Map, then initialize() with
\* loadCache(); an error of initialize ends the process.
Store_initialize ==
    /\ storeImpl = "cache"
    /\ boot.pc \in {"down", "exited"}
    /\ LET r == loadCache(storeFile, EmptyLedger)
       IN  /\ syncCache' = r.cache
           /\ boot' = [pc |-> IF r.threw THEN "crashed" ELSE "up", threw |-> r.threw,
                       from |-> storeFile, loaded |-> r.cache]
    /\ isDirty' = FALSE
    /\ sinceSave' = 0
    /\ UNCHANGED <<storeFile, syncState>>
    /\ StoreFrame

\* processDownloadQueue begins with loadSyncState(syncDir).
Store_loadSyncState ==
    /\ storeImpl = "state"
    /\ boot.pc = "down"
    /\ LET r == loadSyncState(storeFile)
       IN  /\ syncState' = Queue_loaded(storeFile)
           /\ boot' = [pc |-> IF r.threw THEN "crashed" ELSE "up", threw |-> r.threw,
                       from |-> storeFile, loaded |-> r.cache]
    /\ UNCHANGED <<syncCache, storeFile, isDirty, sinceSave>>
    /\ StoreFrame

\* updateItem(itemId, data): of downloadItem (a new entry) or of startSync
\* (verified: true for an entry that is there).
Store_updateItem(i, verified) ==
    /\ storeImpl = "cache"
    /\ boot.pc = "up"
    /\ verified => i \in syncCache.cached
    /\ syncCache' = IF verified THEN Cache_markVerified(syncCache, i)
                    ELSE Cache_updateItem(syncCache, i)
    /\ isDirty' = TRUE
    /\ UNCHANGED <<storeFile, sinceSave, boot, syncState>>
    /\ StoreFrame

\* Time passes.
Store_tick ==
    /\ storeImpl = "cache"
    /\ boot.pc = "up"
    /\ sinceSave < SaveIntervalTicks
    /\ sinceSave' = sinceSave + 1
    /\ UNCHANGED <<syncCache, storeFile, isDirty, boot, syncState>>
    /\ StoreFrame

\* The interval callback of startPeriodicSave.
Store_periodicSave(ok) ==
    /\ storeImpl = "cache"
    /\ boot.pc = "up"
    /\ sinceSave >= SaveIntervalTicks
    /\ LET r == IF isDirty THEN saveCache(storeFile, syncCache, isDirty, sinceSave, ok)
                ELSE [file |-> storeFile, dirty |-> isDirty, since |-> sinceSave]
       IN  /\ storeFile' = r.file
           /\ isDirty' = r.dirty
           /\ sinceSave' = r.since
    /\ UNCHANGED <<syncCache, boot, syncState>>
    /\ StoreFrame

\* cleanup(), at the end of startSync: the entries older than maxAge, old, are
\* deleted, and the cache is saved when there were any.
Store_cleanup(old, ok) ==
    /\ storeImpl = "cache"
    /\ boot.pc = "up"
    /\ old \subseteq syncCache.cached
    /\ LET kept == [cached |-> syncCache.cached \ old, verified |-> syncCache.verified \ old]
           r == IF old # {} THEN saveCache(storeFile, kept, TRUE, sinceSave, ok)
                ELSE [file |-> storeFile, dirty |-> isDirty, since |-> sinceSave]
       IN  /\ syncCache' = kept
           /\ storeFile' = r.file
           /\ isDirty' = r.dirty
           /\ sinceSave' = r.since
    /\ UNCHANGED <<boot, syncState>>
    /\ StoreFrame

\* gracefulShutdown(signal): the WebSocket server and the HTTP server are
\* closed and the process exits.
Store_gracefulShutdown ==
    /\ storeImpl = "cache"
    /\ boot.pc = "up"
    /\ boot' = [boot EXCEPT !.pc = "exited"]
    /\ UNCHANGED <<syncCache, storeFile, isDirty, sinceSave, syncState>>
    /\ StoreFrame

NextStore ==
    \/ Store_initialize
    \/ Store_loadSyncState
    \/ \E i \in StoreItems, verified \in BOOLEAN : Store_updateItem(i, verified)
    \/ Store_tick
    \/ \E ok \in BOOLEAN : Store_periodicSave(ok)
    \/ \E old \in SUBSET StoreItems, ok \in BOOLEAN : Store_cleanup(old, ok)
    \/ Store_gracefulShutdown

SpecStore == InitStore /\ [][NextStore]_vars

(***************************************************************************)
(* Properties of the persisted ledger (SpecStore).                         *)
(***************************************************************************)
\* C29: after a graceful shutdown the durable store holds every ledger entry
\* update made before the shutdown: the file is a store whose items are the
\* ledger the process had when it exited.
C29_ShutdownPersistsLedger ==
    boot.pc = "exited" =>
        \/ storeFile = StoreFile("object", CACHE_VERSION, TRUE, syncCache)
        \/ (syncCache = boot.loaded /\ storeFile = boot.from)

\* What the loader cannot parse as a store: what is not JSON, and JSON whose
\* conversion to the Map throws.
Store_unparsable(impl, file) ==
    \/ Store_notJson(file)
    \/ impl = "cache" /\ file.kind = "object" /\ file.version = CACHE_VERSION /\ ~file.hasItems
    \/ impl = "state" /\ file.kind = "object"

\* C30: when the persisted ledger store cannot be parsed at startup, loading
\* does not throw and the ledger starts empty.
C30_UnparsableStartsEmpty ==
    (boot.pc # "down" /\ Store_unparsable(storeImpl, boot.from)) =>
        /\ ~boot.threw
        /\ boot.loaded = EmptyLedger
        /\ boot.pc # "crashed"

\* The server is up after reading a file that is not JSON, and has gone on to
\* record an item.
C30_Witness ==
    /\ storeImpl = "cache"
    /\ boot.pc = "up"
    /\ Store_notJson(boot.from)
    /\ boot.loaded = EmptyLedger
    /\ syncCache.cached # {}


(***************************************************************************)
(* processDownloadQueue over a state file of an earlier run (SpecDup).     *)
(***************************************************************************)
MaxDupItems == 2         \* items queued over the state file

SettingsDup ==
    [batchSize : {NumItems}, maxConcurrentDownloads : {1}, syncOrder : {"oldest"}]

\* The state files an earlier run may have left.
StateFiles ==
    {StoreFile("array", 0, TRUE, [cached |-> l.cached, verified |-> {}]) : l \in StoredLedgers}

InitDup ==
    /\ currentSync = IdleSync
    /\ syncInProgress = FALSE
    /\ settings \in SettingsDup
    /\ \E n \in 1..MaxDupItems :
          /\ discovered = SubSeq(AllItems, 1, n)
          /\ downloadQueue = [i \in 1..n |-> i]
    /\ disk \in SUBSET {StrayFile, generateFileName(Item(1))}
    /\ NoRuns
    /\ NoLedger
    /\ activeDownloads = 0
    /\ photosIsCancelled = FALSE
    /\ syncState = [p \in Positions |-> "none"]
    /\ task = NoTasks
    /\ retryItems = <<>>
    /\ qpc = "idle"
    /\ NoDiscovery
    /\ NoLimiter
    /\ NoCacheLoad
    /\ NoSubscribers
    /\ storeImpl = "state"
    /\ storeFile \in StateFiles
    /\ isDirty = FALSE
    /\ sinceSave = 0
    /\ boot = NoBoot
    /\ NoClient
    /\ NoFiles

SpecDup == InitDup /\ [][NextQueue]_vars

\* C33: when the file of a synced entry is found to be missing, only the
\* entry's path reference is cleared and the entry is treated as not synced:
\* the entry itself stays in the ledger.
C33_StaleEntryKept ==
    [][\A p \in Positions :
          (task[p] = "checking" /\ task'[p] = "xfer" /\ syncState[p] = "synced")
              => syncState'[p] # "none"]_<<task, syncState>>


(***************************************************************************)
(* The browser WebSocket client: WebSocketProvider of                      *)
(* src/src/context/WebSocketContext.jsx.  A socket is "connecting", "open",*)
(* "closing" (closed, its close event not yet delivered) or "closed".      *)
(***************************************************************************)
MAX_RECONNECT_ATTEMPTS == 2   \* 10 in the source

\* ws.close()
Client_closed(sockets, s) ==
    IF sockets[s] \in {"connecting", "open"} THEN [sockets EXCEPT ![s] = "closing"]
    ELSE sockets

\* cleanup(): closes wsRef.current and clears the timers.
cleanup(c) ==
    [c EXCEPT !.sockets = IF c.wsRef # 0 THEN Client_closed(c.sockets, c.wsRef) ELSE c.sockets,
              !.wsRef = 0, !.reconnectTimeout = FALSE, !.connectionTimeout = 0]

Client_unused(c) == {s \in SocketIds : c.sockets[s] = "none"}

\* initializeWebSocket() up to the handlers: cleanup, new WebSocket, the
\* connection timeout.
initializeWebSocket(c) ==
    LET d == cleanup(c)
        id == CHOOSE s \in Client_unused(c) : \A o \in Client_unused(c) : s <= o
    IN  [d EXCEPT !.sockets[id] = "connecting", !.wsRef = id, !.connectionTimeout = id]

InitClient ==
    /\ currentSync = IdleSync
    /\ syncInProgress = FALSE
    /\ settings = [syncDir |-> "photos"]
    /\ discovered = <<>>
    /\ disk = {}
    /\ NoRuns
    /\ NoLedger
    /\ NoPhotoQueue
    /\ NoDiscovery
    /\ NoLimiter
    /\ NoCacheLoad
    /\ NoSubscribers
    /\ NoStore
    /\ NoClient
    /\ NoFiles

ClientFrame ==
    UNCHANGED <<currentSync, disk, envVars, syncVars, photoVars, discVars, limVars,
                fileVars, cacheVars, wsVars, storeVars>>

\* The effect of the provider runs initializeWebSocket.
Client_mount ==
    /\ client = NoSockets
    /\ client' = initializeWebSocket(client)
    /\ ClientFrame

\* ws.onopen of socket s.
Client_onopen(s) ==
    /\ client.sockets[s] = "connecting"
    /\ client' = [client EXCEPT !.sockets[s] = "open", !.reconnectAttempts = 0,
                                !.connectionTimeout = 0]
    /\ ClientFrame

\* The server or the network ends the connection of socket s.
Client_drop(s) ==
    /\ client.sockets[s] \in {"connecting", "open"}
    /\ client' = [client EXCEPT !.sockets[s] = "closing"]
    /\ ClientFrame

\* ws.onclose of socket s: cleanup, and the reconnect timer.
Client_onclose(s) ==
    /\ client.sockets[s] = "closing"
    /\ LET d == cleanup([client EXCEPT !.sockets[s] = "closed"])
       IN  client' = IF d.reconnectAttempts < MAX_RECONNECT_ATTEMPTS
                     THEN [d EXCEPT !.reconnectTimeout = TRUE]
                     ELSE d
    /\ ClientFrame

\* The reconnect timer fires.
Client_reconnect ==
    /\ client.reconnectTimeout
    /\ Client_unused(client) # {}
    /\ client' = initializeWebSocket([client EXCEPT !.reconnectAttempts = @ + 1])
    /\ ClientFrame

\* The connection timeout set for socket s fires.
Client_connectionTimeout(s) ==
    /\ client.connectionTimeout = s
    /\ Client_unused(client) # {}
    /\ IF client.sockets[s] # "open"
       THEN LET d == cleanup(client)
            IN  client' = IF d.reconnectAttempts < MAX_RECONNECT_ATTEMPTS
                          THEN initializeWebSocket([d EXCEPT !.reconnectAttempts = @ + 1])
                          ELSE d
       ELSE client' = [client EXCEPT !.connectionTimeout = 0]
    /\ ClientFrame

NextClient ==
    \/ Client_mount
    \/ \E s \in SocketIds : Client_onopen(s)
    \/ \E s \in SocketIds : Client_drop(s)
    \/ \E s \in SocketIds : Client_onclose(s)
    \/ Client_reconnect
    \/ \E s \in SocketIds : Client_connectionTimeout(s)

SpecClient == InitClient /\ [][NextClient]_vars

\* C40: in the browser client at most one socket exists at a time, and the
\* close handler of a superseded socket never closes or replaces the current
\* socket.
C40_SupersededHandlerHarmless ==
    [][\A s \in SocketIds :
          (client.sockets[s] = "closing" /\ client'.sockets[s] = "closed"
             /\ client.wsRef \notin {0, s}) =>
                /\ client'.wsRef = client.wsRef
                /\ client'.sockets[client.wsRef] = client.sockets[client.wsRef]]_client

=============================================================================
